---- MODULE Spec2Model ----
(***************************************************************************)
(* Model of the EVM event watchdog: the shared observable state            *)
(* (src/state.rs), the alert dispatcher (src/alerts/mod.rs), the rule      *)
(* engine (src/rules/mod.rs) and the channel pipeline of src/main.rs.      *)
(*                                                                         *)
(* Time is the monotonic clock (Instant) in whole seconds.  Strings that   *)
(* the program parses or formats are sequences of one-character strings;   *)
(* other strings are atomic.  A HashMap is a function whose DOMAIN is the  *)
(* set of keys present.  A Rust tuple is a TLA+ tuple (field .0 is [1]).   *)
(***************************************************************************)
EXTENDS Integers, Sequences, FiniteSets, TLC

VARIABLES
    \* ---- AppState (src/state.rs) ----
    chain_heights,      \* HashMap<String, u64>
    last_block_time,    \* Instant
    alert_history,      \* VecDeque<(Severity, String, String, Instant, u64)>
    severity_counts,    \* HashMap<Severity, u64>
    rule_hits,          \* HashMap<String, u64>
    \* ---- AlertManager (src/alerts/mod.rs) ----
    alerts_config,      \* AlertManager.config
    last_alerts,        \* AlertManager.last_alerts: HashMap<String, Instant>
    send_pc,            \* where the running send_alert call is suspended
    send_args,          \* (severity, message) of the running send_alert call
    \* ---- RuleEngine (src/rules/mod.rs) ----
    engine,             \* RuleEngine.rules: Vec<Box<dyn Rule>>
    rule_results,       \* the vector returned by the last RuleEngine::process call
    \* ---- pipeline (src/main.rs) ----
    chan,               \* the mpsc channel: the events sent and not yet received
    prod_pc,            \* per producer task: "wait" (for a log / asleep), "send", "stopped"
    prod_event,         \* per producer task: Some(the event its tx.send is passing)
    orch_event,         \* orchestrator: Some(the event being handled)
    orch_alerts,        \* orchestrator: the alerts of that event still to handle
    \* ---- main at startup (src/main.rs) ----
    app_config,         \* config.chains (names) and config.contracts (name, chain)
    main_pc,            \* where main is: "chains", "orchestrator", "tui", "in tui"
    providers,          \* chain -> result of connect, for the chains the loop has visited
    tasks,              \* the tasks spawned with tokio::spawn so far
    \* ---- dashboard (src/tui.rs) ----
    terminal,           \* the terminal: raw mode, alternate screen, cursor, last frame
    tui_pc,             \* where run_tui / run_app is
    current_filter_index, \* run_app's local
    res,                \* run_tui's local: Some(the result of run_app)
    run_tui_result,     \* Some(what run_tui returned)
    \* ---- inside add_alert and inside the draw closure ----
    add_alert_pc,       \* Some(the arguments of the add_alert call between its two locks)
    draw_locals,        \* Some(the locals of the running draw closure: filter, counts guard)
    \* ---- clock ----
    now,                \* Instant::now()
    \* ---- history variables (not program state) ----
    workload,           \* which input script the environment follows
    op_count,           \* number of AppState method calls made so far
    last_call,          \* the last AppState method call and its arguments
    calls_made,         \* severity -> number of add_alert calls made with it
    all_records,        \* every record ever appended to alert_history, in order
    send_log,           \* every send_alert call: (severity, message, time, outcome)
    posts,              \* every outbound POST: (provider, call, time, result)
    rule_phase,         \* who registered the rules: "new" (nobody), "add_rule", "main"
    rule_event,         \* Some(the event of the RuleEngine::process call under test)
    rule_checks,        \* what each rule's check returned for that event, by position
    produced,           \* number of logs and simulated events the producers have taken up
    discarded,          \* the logs for which the log task emitted nothing
    emitted,            \* every event that entered the channel, in order
    consumed            \* every event the orchestrator received, in order

stateVars == <<chain_heights, last_block_time, alert_history, severity_counts,
               rule_hits>>
stateGhost == <<workload, op_count, last_call, calls_made, all_records>>
stateFrame == <<stateVars, stateGhost>>
alertVars == <<alerts_config, last_alerts, send_pc, send_args>>
alertGhost == <<send_log, posts>>
alertFrame == <<alertVars, alertGhost>>
ruleVars == <<engine, rule_results>>
ruleGhost == <<rule_phase, rule_event, rule_checks>>
ruleFrame == <<ruleVars, ruleGhost>>
pipeVars == <<chan, prod_pc, prod_event, orch_event, orch_alerts>>
pipeGhost == <<produced, discarded, emitted, consumed>>
pipeFrame == <<pipeVars, pipeGhost>>
mainVars == <<app_config, main_pc, providers, tasks>>
tuiVars == <<terminal, tui_pc, current_filter_index, res, run_tui_result>>
lockVars == <<add_alert_pc, draw_locals>>
uiFrame == <<mainVars, tuiVars, lockVars>>
vars == <<stateFrame, alertFrame, ruleFrame, pipeFrame, uiFrame, now>>
notState == <<alertFrame, ruleFrame, pipeFrame, uiFrame>>
notAlerts == <<stateFrame, ruleFrame, pipeFrame, uiFrame>>
notRules == <<stateFrame, alertFrame, pipeFrame, uiFrame>>

(***************************************************************************)
(* Bounds of the model                                                     *)
(***************************************************************************)
MaxCalls == 3       \* AppState method calls with freely chosen arguments
MaxSends == 3       \* send_alert calls made directly on the dispatcher
MaxNow == 120       \* the clock stops advancing here
MaxRules == 3       \* rules registered through add_rule
MaxEvents == 2      \* logs and simulated events with freely chosen content
MaxPipeNow == 60    \* the clock of the pipeline stops advancing here
MaxTuiCalls == 2    \* AppState method calls made while the dashboard runs

(***************************************************************************)
(* Program constants                                                       *)
(***************************************************************************)
HistoryCap == 50

Severities == {"Low", "Medium", "High", "Critical"}

(***************************************************************************)
(* HashMap helpers                                                         *)
(***************************************************************************)
EmptyMap == [k \in {} |-> 0]

\* map.get(k).unwrap_or(d)
MapGet(map, k, d) == IF k \in DOMAIN map THEN map[k] ELSE d

\* map.insert(k, v)
MapInsert(map, k, v) == [x \in DOMAIN map \cup {k} |-> IF x = k THEN v ELSE map[x]]

\* *map.entry(k).or_insert(0) += 1
MapIncrement(map, k) == MapInsert(map, k, MapGet(map, k, 0) + 1)

RECURSIVE MapSum(_)
MapSum(map) ==
    IF DOMAIN map = {} THEN 0
    ELSE LET k == CHOOSE x \in DOMAIN map : TRUE
         IN  map[k] + MapSum([x \in DOMAIN map \ {k} |-> map[x]])

(***************************************************************************)
(* AppState                                                                *)
(***************************************************************************)

\* add_alert_history with the oldest record kept when the history is full.
add_alert_history_no_evict(history, severity, chain, message, t) ==
    IF /\ Len(history) > 0
       /\ history[Len(history)][1] = severity
       /\ history[Len(history)][2] = chain
       /\ history[Len(history)][3] = message
    THEN [history EXCEPT ![Len(history)] =
              <<@[1], @[2], @[3], t, @[5] + 1>>]
    ELSE Append(history, <<severity, chain, message, t, 1>>)

\* add_alert_history with the chain left out of the tail comparison.
add_alert_history_ignore_chain(history, severity, chain, message, t) ==
    IF /\ Len(history) > 0
       /\ history[Len(history)][1] = severity
       /\ history[Len(history)][3] = message
    THEN [history EXCEPT ![Len(history)] =
              <<@[1], @[2], @[3], t, @[5] + 1>>]
    ELSE LET kept == IF Len(history) >= HistoryCap THEN Tail(history) ELSE history
         IN  Append(kept, <<severity, chain, message, t, 1>>)

\* add_alert that appends a record for every call
add_alert_history_always_append(history, severity, chain, message, t) ==
    LET kept == IF Len(history) >= HistoryCap THEN Tail(history) ELSE history
    IN  Append(kept, <<severity, chain, message, t, 1>>)

\* The part of add_alert that runs under the alert_history lock.
add_alert_history(history, severity, chain, message, t) ==
    IF /\ Len(history) > 0
       /\ history[Len(history)][1] = severity
       /\ history[Len(history)][2] = chain
       /\ history[Len(history)][3] = message
    THEN [history EXCEPT ![Len(history)] =
              <<@[1], @[2], @[3], t, @[5] + 1>>]
    ELSE LET kept == IF Len(history) >= HistoryCap THEN Tail(history) ELSE history
         IN  Append(kept, <<severity, chain, message, t, 1>>)

\* add_alert that counts a severity only when a new record is appended.
add_alert_count_appended_only(severity, chain, message) ==
    /\ alert_history' = add_alert_history(alert_history, severity, chain, message, now)
    /\ severity_counts' = IF Len(alert_history') = Len(alert_history)
                               /\ Len(alert_history) < HistoryCap
                           THEN severity_counts
                           ELSE MapIncrement(severity_counts, severity)

\* AppState::add_alert
add_alert(severity, chain, message) ==
    /\ severity_counts' = MapIncrement(severity_counts, severity)
    /\ alert_history' = add_alert_history(alert_history, severity, chain, message, now)

\* AppState::update_block
update_block(chain_name, block) ==
    /\ chain_heights' = MapInsert(chain_heights, chain_name, block)
    /\ last_block_time' = now

\* AppState::record_rule_hit
record_rule_hit(rule_name) ==
    rule_hits' = MapIncrement(rule_hits, rule_name)

\* AppState::new
AppStateNew ==
    /\ chain_heights = EmptyMap
    /\ last_block_time = now
    /\ alert_history = <<>>
    /\ severity_counts = EmptyMap
    /\ rule_hits = EmptyMap

\* No AppState method has been called yet.
StateGhostInit ==
    /\ op_count = 0
    /\ last_call = <<"new">>
    /\ calls_made = [s \in Severities |-> 0]
    /\ all_records = <<>>

(***************************************************************************)
(* U256 (alloy::primitives::U256): NLimbs limbs of LimbBits bits each,     *)
(* least significant limb first.                                           *)
(***************************************************************************)
NLimbs == 16
LimbBase == 65536
\* a power of two that exceeds the 78 decimal digits of U256::MAX and the
\* length of every numeral parsed here
DigitSpan == 128

\* Option<T>: None is the empty tuple, Some(x) is <<x>>.
None == <<>>
Some(x) == <<x>>

\* The element of a one-element set.  Only({ F(r) : r \in {e} }) is F(e) with
\* e evaluated once, as a local binding of the code is: TLC re-evaluates a LET
\* definition at each use while it evaluates ENABLED.
Only(S) == CHOOSE v \in S : TRUE

\* U256::from(n) for a small n
U256From(n) == [i \in 1..NLimbs |-> IF i = 1 THEN n % LimbBase
                                    ELSE IF i = 2 THEN n \div LimbBase ELSE 0]

\* U256::MAX
U256Max == [i \in 1..NLimbs |-> LimbBase - 1]

\* x >> 1
ShiftRight1(x) ==
    [i \in 1..NLimbs |->
        (x[i] \div 2) + (IF i < NLimbs THEN (x[i + 1] % 2) * (LimbBase \div 2) ELSE 0)]

\* 2^255
U256Pow255 == [i \in 1..NLimbs |-> IF i = NLimbs THEN LimbBase \div 2 ELSE 0]

\* a >= b
U256Ge(a, b) ==
    \/ a = b
    \/ \E i \in 1..NLimbs :
         /\ a[i] > b[i]
         /\ \A j \in (i + 1)..NLimbs : a[j] = b[j]

\* a > b
U256Gt(a, b) == U256Ge(a, b) /\ a # b

\* limbs a..a+n-1 of x * m with carry added in below limb a, for n a power
\* of two: <<the limbs, the carry out of the last of them>>.  The lower half
\* of the limbs is done first and its carry goes into the upper half.
RECURSIVE MulAddLimbs(_, _, _, _, _)
MulAddLimbs(x, m, carry, a, n) ==
    IF n = 1
    THEN Only({ <<<<v % LimbBase>>, v \div LimbBase>> : v \in {x[a] * m + carry} })
    ELSE Only({ Only({ <<lo[1] \o hi[1], hi[2]>> :
                       hi \in {MulAddLimbs(x, m, lo[2], a + n \div 2, n \div 2)} }) :
                lo \in {MulAddLimbs(x, m, carry, a, n \div 2)} })

\* x * m + d, checked: None on overflow
U256MulAdd(x, m, d) ==
    Only({ IF r[2] > 0 THEN None ELSE Some(r[1]) :
           r \in {MulAddLimbs(x, m, d, 1, NLimbs)} })

DigitChars == <<"0", "1", "2", "3", "4", "5", "6", "7", "8", "9",
                "a", "b", "c", "d", "e", "f">>

\* the value of a digit character, -1 for any other character
DigitValue(c) ==
    IF \E i \in DOMAIN DigitChars : DigitChars[i] = c
    THEN (CHOOSE i \in DOMAIN DigitChars : DigitChars[i] = c) - 1
    ELSE -1

\* Uint::from_str_radix on the characters a..a+n-1 of str (those that
\* exist), for n a power of two, continuing from acc: digits most significant
\* first, '_' ignored; an invalid digit or an overflow is an error (None).
\* The first half of the characters is done first and its result is carried
\* into the second half.
RECURSIVE FromStrRadix(_, _, _, _, _)
FromStrRadix(str, a, n, radix, acc) ==
    IF a > Len(str) THEN Some(acc)
    ELSE IF n = 1
    THEN IF str[a] = "_" THEN Some(acc)
         ELSE Only({ IF d < 0 \/ d >= radix THEN None
                     ELSE U256MulAdd(acc, radix, d) :
                     d \in {DigitValue(str[a])} })
    ELSE Only({ IF r = None THEN None
                ELSE FromStrRadix(str, a + n \div 2, n \div 2, radix, r[1]) :
                r \in {FromStrRadix(str, a, n \div 2, radix, acc)} })

\* str.parse::<U256>(): decimal, or hexadecimal after a "0x" prefix
ParseU256(str) ==
    IF Len(str) >= 2 /\ str[1] = "0" /\ str[2] = "x"
    THEN FromStrRadix(str, 3, DigitSpan, 16, U256From(0))
    ELSE FromStrRadix(str, 1, DigitSpan, 10, U256From(0))

\* long division by 10 of limbs a+n-1 down to a, for n a power of two, with
\* rem carried in from above: <<the quotient's limbs, the remainder>>.  The
\* upper half of the limbs is done first and its remainder goes into the
\* lower half.
RECURSIVE DivLimbs10(_, _, _, _)
DivLimbs10(x, a, n, rem) ==
    IF n = 1
    THEN Only({ <<<<cur \div 10>>, cur % 10>> : cur \in {rem * LimbBase + x[a]} })
    ELSE Only({ Only({ <<lo[1] \o hi[1], lo[2]>> :
                       lo \in {DivLimbs10(x, a, n \div 2, hi[2])} }) :
                hi \in {DivLimbs10(x, a + n \div 2, n \div 2, rem)} })

\* x divided by 10: <<quotient, remainder>>
U256DivRem10(x) == DivLimbs10(x, 1, NLimbs, 0)

\* up to k of the lowest decimal digits of x, for k a power of two, stopping
\* when nothing is left: <<what is left of x, the digits>>.  The lower half
\* of the digits is taken first, the others from what it leaves.
RECURSIVE LowDigits(_, _)
LowDigits(x, k) ==
    IF k = 1
    THEN Only({ <<qr[1], <<DigitChars[qr[2] + 1]>>>> : qr \in {U256DivRem10(x)} })
    ELSE Only({ IF lo[1] = U256From(0) THEN lo
                ELSE Only({ <<hi[1], hi[2] \o lo[2]>> :
                            hi \in {LowDigits(lo[1], k \div 2)} }) :
                lo \in {LowDigits(x, k \div 2)} })

\* format!("{}", x): the decimal digits of x
U256Display(x) == LowDigits(x, DigitSpan)[2]

(***************************************************************************)
(* Rules and the rule engine                                               *)
(***************************************************************************)
\* ThresholdRule::new, OwnershipRule::new, HighApprovalRule::new
ThresholdRule(min_value, severity) ==
    [kind |-> "ThresholdRule", value |-> min_value, severity |-> severity]
OwnershipRule(severity) ==
    [kind |-> "OwnershipRule", value |-> U256From(0), severity |-> severity]
HighApprovalRule(threshold, severity) ==
    [kind |-> "HighApprovalRule", value |-> threshold, severity |-> severity]

\* event.data.get("value").and_then(|v| v.as_str()).and_then(|s| s.parse().ok())
\* A JSON value is <<"string", characters>> or <<"number", n>>.
PayloadValue(event) ==
    IF "value" \notin DOMAIN event.data THEN None
    ELSE IF event.data["value"][1] # "string" THEN None
    ELSE ParseU256(event.data["value"][2])

\* ThresholdRule::check with a strict comparison
ThresholdRule_check_strict(rule, event) ==
    IF event.event_type[1] = "Transfer"
    THEN Only({ IF val # None /\ U256Gt(val[1], rule.value)
                THEN Some(<<<<"Large Transfer Detected: ">> \o U256Display(val[1])
                               \o <<" > ">> \o U256Display(rule.value),
                            rule.severity>>)
                ELSE None :
                val \in {PayloadValue(event)} })
    ELSE None

\* ThresholdRule::check
ThresholdRule_check(rule, event) ==
    IF event.event_type[1] = "Transfer"
    THEN Only({ IF val # None /\ U256Ge(val[1], rule.value)
                THEN Some(<<<<"Large Transfer Detected: ">> \o U256Display(val[1])
                               \o <<" > ">> \o U256Display(rule.value),
                            rule.severity>>)
                ELSE None :
                val \in {PayloadValue(event)} })
    ELSE None

\* OwnershipRule::check that looks for a value in the payload
OwnershipRule_check_needs_value(rule, event) ==
    IF event.event_type[1] = "OwnershipTransferred" /\ "value" \in DOMAIN event.data
    THEN Some(<<<<"Ownership Transferred!">>, rule.severity>>)
    ELSE None

\* OwnershipRule::check
OwnershipRule_check(rule, event) ==
    IF event.event_type[1] = "OwnershipTransferred"
    THEN Some(<<<<"Ownership Transferred!">>, rule.severity>>)
    ELSE None

\* HighApprovalRule::check with a strict comparison
HighApprovalRule_check_strict(rule, event) ==
    IF event.event_type[1] = "Approval"
    THEN Only({ IF val # None /\ U256Gt(val[1], rule.value)
                THEN Some(<<<<"High Approval Detected: ">> \o U256Display(val[1])
                               \o <<" >= ">> \o U256Display(rule.value),
                            rule.severity>>)
                ELSE None :
                val \in {PayloadValue(event)} })
    ELSE None

\* HighApprovalRule::check
HighApprovalRule_check(rule, event) ==
    IF event.event_type[1] = "Approval"
    THEN Only({ IF val # None /\ U256Ge(val[1], rule.value)
                THEN Some(<<<<"High Approval Detected: ">> \o U256Display(val[1])
                               \o <<" >= ">> \o U256Display(rule.value),
                            rule.severity>>)
                ELSE None :
                val \in {PayloadValue(event)} })
    ELSE None

\* rule.check(event) through the trait object
Rule_check(rule, event) ==
    CASE rule.kind = "ThresholdRule" -> ThresholdRule_check(rule, event)
      [] rule.kind = "OwnershipRule" -> OwnershipRule_check(rule, event)
      [] rule.kind = "HighApprovalRule" -> HighApprovalRule_check(rule, event)

\* RuleEngine::process that stops at the first rule that fires
RECURSIVE process_first_only(_, _)
process_first_only(rules, event) ==
    IF rules = <<>> THEN <<>>
    ELSE LET result == Rule_check(Head(rules), event) IN
         IF result # None THEN <<result[1]>>
         ELSE process_first_only(Tail(rules), event)

\* RuleEngine::process
RECURSIVE process(_, _)
process(rules, event) ==
    IF rules = <<>> THEN <<>>
    ELSE LET result == Rule_check(Head(rules), event) IN
         (IF result # None THEN <<result[1]>> ELSE <<>>)
             \o process(Tail(rules), event)

\* What rule.check(event) returns for each rule of the engine, by position.
RECURSIVE check_each(_, _)
check_each(rules, event) ==
    IF rules = <<>> THEN <<>>
    ELSE <<Rule_check(Head(rules), event)>> \o check_each(Tail(rules), event)

\* RuleEngine::new
RuleEngineNew ==
    /\ engine = <<>>
    /\ rule_results = <<>>
    /\ rule_phase = "new"
    /\ rule_event = None
    /\ rule_checks = <<>>

\* The producer tasks: one log task (watch_logs) and the simulator.
Producers == {"log", "sim"}

\* The pipeline before any task has run.
PipelineIdle ==
    /\ chan = <<>>
    /\ prod_pc = [p \in Producers |-> "wait"]
    /\ prod_event = [p \in Producers |-> None]
    /\ orch_event = None
    /\ orch_alerts = <<>>
    /\ produced = 0
    /\ discarded = <<>>
    /\ emitted = <<>>
    /\ consumed = <<>>

\* main before the chain loop, with the configuration config
MainAtChainLoop(config) ==
    /\ app_config = config
    /\ main_pc = "chains"
    /\ providers = EmptyMap
    /\ tasks = {}

\* The configuration without chains, contracts and --simulate.
NoChains == [chains |-> {}, contracts |-> {}, simulate |-> FALSE]

\* The terminal as the program finds it.
TerminalStart ==
    [raw_mode |-> FALSE, alternate_screen |-> FALSE, cursor_hidden |-> FALSE,
     frame |-> None]

TuiNotCalled ==
    /\ terminal = TerminalStart
    /\ tui_pc = "not called"
    /\ current_filter_index = 0
    /\ res = None
    /\ run_tui_result = None

\* No add_alert call and no draw closure is under way.
LocksIdle ==
    /\ add_alert_pc = None
    /\ draw_locals = None

\* Neither the startup of main nor the dashboard is part of the run.
UiIdle == MainAtChainLoop(NoChains) /\ TuiNotCalled /\ LocksIdle

\* the match on the configured severity string in main
ParseSeverity(str) ==
    CASE str = "High" -> "High"
      [] str = "Critical" -> "Critical"
      [] str = "Medium" -> "Medium"
      [] OTHER -> "Low"

\* main: the HighApprovalRule registered at startup
MainHighApprovalRule == HighApprovalRule(ShiftRight1(U256Max), "Critical")

\* main: the rules registered at startup from the rules section of the config
MainRules(rules_config) ==
    LET transfer_severity == ParseSeverity(rules_config.transfer_threshold.severity)
        ownership_severity == ParseSeverity(rules_config.ownership_change.severity)
        parsed == ParseU256(rules_config.transfer_threshold.min_value)
        min_value == IF parsed # None THEN parsed[1] ELSE U256From(1000)
    IN  <<ThresholdRule(min_value, transfer_severity)>>
        \o (IF rules_config.ownership_change.enabled
            THEN <<OwnershipRule(ownership_severity)>> ELSE <<>>)
        \o <<MainHighApprovalRule>>

(***************************************************************************)
(* AlertManager                                                            *)
(***************************************************************************)
Cooldown == 60

\* A cooldown key that differs from call to call
AlertKey_per_call(severity, message) == <<severity, ":", Len(send_log)>> \o message

\* format!("{:?}:{}", severity, message)
AlertKey(severity, message) == <<severity, ":">> \o message

\* The cooldown test with a window one second too short.
Suppressed_short_window(history, key, t) ==
    /\ key \in DOMAIN history
    /\ t - history[key] < Cooldown - 1

\* history.get(&key) is Some(last_time) and last_time.elapsed() < self.cooldown
Suppressed(history, key, t) ==
    /\ key \in DOMAIN history
    /\ t - history[key] < Cooldown

\* send_discord_alert goes past its early return
DiscordEnabled(config) == config.webhook_url # ""

\* send_telegram_alert that returns early on a missing token or chat id only,
\* not on an empty one
TelegramEnabled_empty_allowed(config) ==
    /\ config.telegram_bot_token # None
    /\ config.telegram_chat_id # None

\* send_telegram_alert goes past its two early returns
TelegramEnabled(config) ==
    /\ config.telegram_bot_token # None
    /\ config.telegram_bot_token[1] # ""
    /\ config.telegram_chat_id # None
    /\ config.telegram_chat_id[1] # ""

EnabledProviders(config) ==
    (IF DiscordEnabled(config) THEN {"discord"} ELSE {})
        \cup (IF TelegramEnabled(config) THEN {"telegram"} ELSE {})

\* AlertManager::new
AlertManagerNew(config) ==
    /\ alerts_config = config
    /\ last_alerts = EmptyMap
    /\ send_pc = "idle"
    /\ send_args = <<>>
    /\ send_log = <<>>
    /\ posts = <<>>

\* client.post(url).json(&payload).send() is issued by the running call
StartPost(provider) ==
    posts' = Append(posts, <<provider, Len(send_log'), now, "in flight">>)

\* The result of the POST in flight arrives.
FinishPost(result) ==
    posts' = [posts EXCEPT ![Len(posts)] = <<@[1], @[2], @[3], result>>]

\* send_alert that refreshes the key's timestamp also when it suppresses
send_alert_refresh_on_suppress(severity, message) ==
    LET key == AlertKey(severity, message) IN
    /\ send_pc = "idle"
    /\ last_alerts' = MapInsert(last_alerts, key, now)
    /\ IF Suppressed(last_alerts, key, now)
       THEN /\ send_log' = Append(send_log, <<severity, message, now, "suppressed">>)
            /\ UNCHANGED <<send_pc, send_args, posts>>
       ELSE /\ send_log' = Append(send_log, <<severity, message, now, "dispatched">>)
            /\ send_args' = <<severity, message>>
            /\ IF DiscordEnabled(alerts_config)
               THEN send_pc' = "discord" /\ StartPost("discord")
               ELSE IF TelegramEnabled(alerts_config)
               THEN send_pc' = "telegram" /\ StartPost("telegram")
               ELSE send_pc' = "idle" /\ posts' = posts
    /\ UNCHANGED alerts_config

\* AlertManager::send_alert up to its first suspension in a POST (or to its
\* return when the alert is suppressed or no provider is enabled).
send_alert(severity, message) ==
    LET key == AlertKey(severity, message) IN
    /\ send_pc = "idle"
    /\ IF Suppressed(last_alerts, key, now)
       THEN /\ send_log' = Append(send_log, <<severity, message, now, "suppressed">>)
            /\ UNCHANGED <<last_alerts, send_pc, send_args, posts>>
       ELSE /\ send_log' = Append(send_log, <<severity, message, now, "dispatched">>)
            /\ last_alerts' = MapInsert(last_alerts, key, now)
            /\ send_args' = <<severity, message>>
            /\ IF DiscordEnabled(alerts_config)
               THEN send_pc' = "discord" /\ StartPost("discord")
               ELSE IF TelegramEnabled(alerts_config)
               THEN send_pc' = "telegram" /\ StartPost("telegram")
               ELSE send_pc' = "idle" /\ posts' = posts
    /\ UNCHANGED alerts_config

\* send_discord_alert whose error ends send_alert: after a failed webhook
\* POST send_telegram_alert is not called
DiscordReturn_abort_on_err ==
    /\ send_pc = "discord"
    /\ \E result \in {"ok", "err"} :
         IF TelegramEnabled(alerts_config) /\ result = "ok"
         THEN /\ send_pc' = "telegram"
              /\ posts' = Append([posts EXCEPT ![Len(posts)] =
                                      <<@[1], @[2], @[3], result>>],
                                 <<"telegram", Len(send_log), now, "in flight">>)
              /\ UNCHANGED send_args
         ELSE /\ send_pc' = "idle"
              /\ send_args' = <<>>
              /\ FinishPost(result)
    /\ UNCHANGED <<alerts_config, last_alerts, send_log>>

\* send_discord_alert: the webhook POST returns Ok or Err; send_alert goes on
\* to send_telegram_alert.
DiscordReturn ==
    /\ send_pc = "discord"
    /\ \E result \in {"ok", "err"} :
         IF TelegramEnabled(alerts_config)
         THEN /\ send_pc' = "telegram"
              /\ posts' = Append([posts EXCEPT ![Len(posts)] =
                                      <<@[1], @[2], @[3], result>>],
                                 <<"telegram", Len(send_log), now, "in flight">>)
              /\ UNCHANGED send_args
         ELSE /\ send_pc' = "idle"
              /\ send_args' = <<>>
              /\ FinishPost(result)
    /\ UNCHANGED <<alerts_config, last_alerts, send_log>>

\* send_telegram_alert: the Telegram POST returns Ok or Err; send_alert returns.
TelegramReturn ==
    /\ send_pc = "telegram"
    /\ \E result \in {"ok", "err"} : FinishPost(result)
    /\ send_pc' = "idle"
    /\ send_args' = <<>>
    /\ UNCHANGED <<alerts_config, last_alerts, send_log>>

\* The monotonic clock advances.
TickSteps == {59, 60}
TickUpTo(limit) ==
    /\ \E d \in TickSteps : now + d <= limit /\ now' = now + d
    /\ UNCHANGED <<stateFrame, notState>>

Tick == TickUpTo(MaxNow)

(***************************************************************************)
(* SpecAlerts: the dispatcher driven directly through send_alert.          *)
(***************************************************************************)
WebhookUrls == {"", "https://discord.example/api/webhooks/1"}
TelegramTokens == {None, Some(""), Some("123:token")}
TelegramChatIds == {None, Some(""), Some("42")}
AlertsConfigs ==
    [webhook_url : WebhookUrls,
     telegram_bot_token : TelegramTokens,
     telegram_chat_id : TelegramChatIds]
NoProviders ==
    [webhook_url |-> "", telegram_bot_token |-> None, telegram_chat_id |-> None]

SendSeverities == {"High", "Critical"}
SendMessages == {<<"Ownership Transferred!">>}

InitAlerts ==
    /\ now = 0
    /\ AppStateNew
    /\ StateGhostInit
    /\ workload = "free"
    /\ \E config \in AlertsConfigs : AlertManagerNew(config)
    /\ RuleEngineNew
    /\ PipelineIdle
    /\ UiIdle

SendAlert ==
    /\ Len(send_log) < MaxSends
    /\ \E severity \in SendSeverities, message \in SendMessages :
         send_alert(severity, message)
    /\ UNCHANGED <<notAlerts, now>>

DiscordDone == DiscordReturn /\ UNCHANGED <<notAlerts, now>>

TelegramDone == TelegramReturn /\ UNCHANGED <<notAlerts, now>>

NextAlerts == SendAlert \/ DiscordDone \/ TelegramDone \/ Tick

SpecAlerts == InitAlerts /\ [][NextAlerts]_vars

(***************************************************************************)
(* SpecState: AppState driven directly through its three methods.          *)
(*                                                                         *)
(* Under workload "free" every call takes its arguments from the small     *)
(* sets below.  Under workload "fill" the first FillCalls calls are        *)
(* add_alert calls that alternate between two alerts, which brings the     *)
(* history close to its capacity; the calls after them are free again.     *)
(***************************************************************************)
Workloads == {"free", "fill"}
FillCalls == HistoryCap - 2

StateSeverities == {"Low", "High", "Critical"}
StateChains == {"ethereum", "polygon"}
StateMessages == {<<"Ownership Transferred!">>, <<"High Approval Detected">>}
BlockHeights == {0, 99, 100}
StateRuleNames == {"ThresholdRule", "OwnershipRule"}

FillAlert(i) ==
    IF i % 2 = 0 THEN <<"High", "ethereum", <<"Ownership Transferred!">>>>
                 ELSE <<"Critical", "polygon", <<"Ownership Transferred!">>>>

FreeFrom == IF workload = "fill" THEN FillCalls ELSE 0

AlertInputs ==
    IF op_count < FreeFrom THEN {FillAlert(op_count)}
    ELSE StateSeverities \X StateChains \X StateMessages

\* The all-time log of appended records, maintained beside add_alert.
LogAlert(log, severity, chain, message, t) ==
    IF /\ Len(log) > 0
       /\ <<log[Len(log)][1], log[Len(log)][2], log[Len(log)][3]>>
              = <<severity, chain, message>>
    THEN [log EXCEPT ![Len(log)] = <<@[1], @[2], @[3], t, @[5] + 1>>]
    ELSE Append(log, <<severity, chain, message, t, 1>>)

InitState ==
    /\ now = 0
    /\ AppStateNew
    /\ StateGhostInit
    /\ workload \in Workloads
    /\ AlertManagerNew(NoProviders)
    /\ RuleEngineNew
    /\ PipelineIdle
    /\ UiIdle

AddAlert ==
    /\ op_count < FreeFrom + MaxCalls
    /\ \E a \in AlertInputs :
         /\ add_alert(a[1], a[2], a[3])
         /\ last_call' = <<"add_alert", a[1], a[2], a[3]>>
         /\ calls_made' = [calls_made EXCEPT ![a[1]] = @ + 1]
         /\ all_records' = LogAlert(all_records, a[1], a[2], a[3], now)
    /\ op_count' = op_count + 1
    /\ UNCHANGED <<chain_heights, last_block_time, rule_hits, now, workload,
                   notState>>

UpdateBlock ==
    /\ op_count >= FreeFrom
    /\ op_count < FreeFrom + MaxCalls
    /\ \E c \in StateChains, h \in BlockHeights :
         /\ update_block(c, h)
         /\ last_call' = <<"update_block", c, h>>
    /\ op_count' = op_count + 1
    /\ UNCHANGED <<alert_history, severity_counts, rule_hits, now, workload,
                   calls_made, all_records, notState>>

RecordRuleHit ==
    /\ op_count >= FreeFrom
    /\ op_count < FreeFrom + MaxCalls
    /\ \E n \in StateRuleNames :
         /\ record_rule_hit(n)
         /\ last_call' = <<"record_rule_hit", n>>
    /\ op_count' = op_count + 1
    /\ UNCHANGED <<chain_heights, last_block_time, alert_history, severity_counts,
                   now, workload, calls_made, all_records, notState>>

NextState == AddAlert \/ UpdateBlock \/ RecordRuleHit

SpecState == InitState /\ [][NextState]_vars

(***************************************************************************)
(* SpecRules: a RuleEngine that is built (by add_rule calls, or by main    *)
(* from the configuration) and then asked to process events.               *)
(***************************************************************************)
Dec_500 == <<"5", "0", "0">>
Dec_999 == <<"9", "9", "9">>
Dec_1000 == <<"1", "0", "0", "0">>
Dec_1001 == <<"1", "0", "0", "1">>
Hex_1000 == <<"0", "x", "3", "e", "8">>
Dec_2p255m2 == <<"5", "7", "8", "9", "6", "0", "4", "4", "6", "1", "8", "6", "5", "8", "0", "9", "7", "7", "1", "1", "7", "8", "5", "4", "9", "2", "5", "0", "4", "3", "4", "3", "9", "5", "3", "9", "2", "6", "6", "3", "4", "9", "9", "2", "3", "3", "2", "8", "2", "0", "2", "8", "2", "0", "1", "9", "7", "2", "8", "7", "9", "2", "0", "0", "3", "9", "5", "6", "5", "6", "4", "8", "1", "9", "9", "6", "6">>
Dec_2p255m1 == <<"5", "7", "8", "9", "6", "0", "4", "4", "6", "1", "8", "6", "5", "8", "0", "9", "7", "7", "1", "1", "7", "8", "5", "4", "9", "2", "5", "0", "4", "3", "4", "3", "9", "5", "3", "9", "2", "6", "6", "3", "4", "9", "9", "2", "3", "3", "2", "8", "2", "0", "2", "8", "2", "0", "1", "9", "7", "2", "8", "7", "9", "2", "0", "0", "3", "9", "5", "6", "5", "6", "4", "8", "1", "9", "9", "6", "7">>
Dec_2p255 == <<"5", "7", "8", "9", "6", "0", "4", "4", "6", "1", "8", "6", "5", "8", "0", "9", "7", "7", "1", "1", "7", "8", "5", "4", "9", "2", "5", "0", "4", "3", "4", "3", "9", "5", "3", "9", "2", "6", "6", "3", "4", "9", "9", "2", "3", "3", "2", "8", "2", "0", "2", "8", "2", "0", "1", "9", "7", "2", "8", "7", "9", "2", "0", "0", "3", "9", "5", "6", "5", "6", "4", "8", "1", "9", "9", "6", "8">>
Dec_2p256m1 == <<"1", "1", "5", "7", "9", "2", "0", "8", "9", "2", "3", "7", "3", "1", "6", "1", "9", "5", "4", "2", "3", "5", "7", "0", "9", "8", "5", "0", "0", "8", "6", "8", "7", "9", "0", "7", "8", "5", "3", "2", "6", "9", "9", "8", "4", "6", "6", "5", "6", "4", "0", "5", "6", "4", "0", "3", "9", "4", "5", "7", "5", "8", "4", "0", "0", "7", "9", "1", "3", "1", "2", "9", "6", "3", "9", "9", "3", "5">>
Dec_2p256 == <<"1", "1", "5", "7", "9", "2", "0", "8", "9", "2", "3", "7", "3", "1", "6", "1", "9", "5", "4", "2", "3", "5", "7", "0", "9", "8", "5", "0", "0", "8", "6", "8", "7", "9", "0", "7", "8", "5", "3", "2", "6", "9", "9", "8", "4", "6", "6", "5", "6", "4", "0", "5", "6", "4", "0", "3", "9", "4", "5", "7", "5", "8", "4", "0", "0", "7", "9", "1", "3", "1", "2", "9", "6", "3", "9", "9", "3", "6">>

\* payloads of the "value" field; the last three do not parse
ValueStrings ==
    {Dec_999, Dec_1000, Dec_1001, Hex_1000, Dec_2p255m2, Dec_2p255m1,
     Dec_2p255, Dec_2p256m1, Dec_2p256, <<"a", "b", "c">>, <<"-", "1">>}

Payloads ==
    {[value |-> <<"string", v>>] : v \in ValueStrings}
        \cup {EmptyMap, [value |-> <<"number", 1000>>]}

EventTypes ==
    {<<"Transfer">>, <<"OwnershipTransferred">>, <<"Approval">>,
     <<"Unknown", "0x8c5be1e5">>}

\* NormalizedEvent
Event(chain_id, chain_name, event_type, data) ==
    [chain_id |-> chain_id, chain_name |-> chain_name, event_type |-> event_type,
     severity |-> "Low", data |-> data]

RuleEvents == {Event(1, "ethereum", t, d) : t \in EventTypes, d \in Payloads}

RulePool ==
    {ThresholdRule(U256From(1000), "High"),
     OwnershipRule("Critical"),
     HighApprovalRule(ShiftRight1(U256Max), "Critical"),
     HighApprovalRule(U256From(1000), "High"),
     HighApprovalRule(U256Pow255, "Critical")}

RulesConfigs ==
    [transfer_threshold : [min_value : {Dec_1001, <<"a", "b", "c">>},
                           severity : {"High", "low"}],
     ownership_change : [enabled : BOOLEAN, severity : {"Critical"}]]

InitRules ==
    /\ now = 0
    /\ AppStateNew
    /\ StateGhostInit
    /\ workload = "free"
    /\ AlertManagerNew(NoProviders)
    /\ RuleEngineNew
    /\ PipelineIdle
    /\ UiIdle

\* RuleEngine::add_rule
AddRule ==
    /\ rule_phase \in {"new", "add_rule"}
    /\ rule_event = None
    /\ Len(engine) < MaxRules
    /\ \E rule \in RulePool : engine' = Append(engine, rule)
    /\ rule_phase' = "add_rule"
    /\ UNCHANGED <<rule_results, rule_event, rule_checks, notRules, now>>

\* main: the rule registration at startup
MainSetup ==
    /\ rule_phase = "new"
    /\ rule_event = None
    /\ \E rules_config \in RulesConfigs : engine' = MainRules(rules_config)
    /\ rule_phase' = "main"
    /\ UNCHANGED <<rule_results, rule_event, rule_checks, notRules, now>>

\* RuleEngine::process, called once on the finished engine (the result
\* depends on the rules and the event only)
Process ==
    /\ rule_event = None
    /\ \E event \in RuleEvents :
         /\ rule_results' = process(engine, event)
         /\ rule_event' = Some(event)
         /\ rule_checks' = check_each(engine, event)
    /\ UNCHANGED <<engine, rule_phase, notRules, now>>

NextRules == AddRule \/ MainSetup \/ Process

SpecRules == InitRules /\ [][NextRules]_vars

(***************************************************************************)
(* The pipeline of main: producer tasks -> bounded channel -> orchestrator *)
(***************************************************************************)
ChannelCap == 100

\* What watch_logs does with one log of its subscription: a log with one of
\* the three known signatures that decodes becomes Some(event) with
\* chain_id 1; any other log yields nothing.
watch_logs_event(chain_name, log) ==
    IF log.topic0 \in {"OwnershipTransferred", "Transfer", "Approval"} /\ log.decodes
    THEN Some(Event(1, chain_name, <<log.topic0>>, log.data))
    ELSE None

\* The mock event the simulator builds from its random draws.
simulator_event(event_type_idx, val) ==
    Event(1, "Simulation",
          CASE event_type_idx = 0 -> <<"Transfer">>
            [] event_type_idx = 1 -> <<"Approval">>
            [] OTHER -> <<"OwnershipTransferred">>,
          [value |-> <<"string", val>>])

\* Inputs of the producers.
\* The log task watches a contract on ethereum; under workload "polygon" the
\* one configured chain is polygon and the contract is there.
LogChain == IF workload = "polygon" THEN "polygon" ELSE "ethereum"
\* chain_cfg.chain_id of the configured chains
ConfiguredChainId == [c \in {"ethereum", "polygon"} |-> IF c = "ethereum" THEN 1 ELSE 137]
Log(topic0, decodes, data) == [topic0 |-> topic0, decodes |-> decodes, data |-> data]
Logs ==
    {Log("Transfer", TRUE, [value |-> <<"string", <<"2", "0", "0", "0">>>>]),
     Log("Transfer", FALSE, EmptyMap),
     Log("OwnershipTransferred", TRUE, EmptyMap),
     Log("0x8c5be1e5", TRUE, EmptyMap)}
SimValues == {<<"5", "0", "0">>, <<"1", "0", "0", "0", "0", "0", "0", "0", "0", "0">>}

\* Under workload "fill" the simulator alone produces the first FillEvents
\* events, alternating between two events that trigger no rule; this brings
\* the channel close to its capacity when the orchestrator lags.
FillEvents == ChannelCap
FreeEventsFrom == IF workload = "fill" THEN FillEvents ELSE 0
FillDraw(i) == <<i % 2, <<"5", "0", "0">>>>

\* watch_logs that returns the decode error of a log with ?
LogArrives_decode_error_returned ==
    /\ prod_pc["log"] = "wait"
    /\ produced >= FreeEventsFrom
    /\ produced < FreeEventsFrom + MaxEvents
    /\ \E log \in Logs :
         LET ev == watch_logs_event(LogChain, log) IN
         IF ev # None
         THEN /\ prod_pc' = [prod_pc EXCEPT !["log"] = "send"]
              /\ prod_event' = [prod_event EXCEPT !["log"] = ev]
              /\ UNCHANGED discarded
         ELSE /\ discarded' = Append(discarded, log)
              /\ prod_pc' = [prod_pc EXCEPT !["log"] =
                                 IF log.decodes THEN "wait" ELSE "stopped"]
              /\ UNCHANGED prod_event
    /\ produced' = produced + 1
    /\ UNCHANGED <<chan, orch_event, orch_alerts, emitted, consumed,
                   stateFrame, alertFrame, ruleFrame, uiFrame, now>>

\* watch_logs: the next log of the subscription arrives and is decoded; a
\* decoded event is handed to tx.send.
LogArrives ==
    /\ prod_pc["log"] = "wait"
    /\ produced >= FreeEventsFrom
    /\ produced < FreeEventsFrom + MaxEvents
    /\ \E log \in Logs :
         LET ev == watch_logs_event(LogChain, log) IN
         IF ev # None
         THEN /\ prod_pc' = [prod_pc EXCEPT !["log"] = "send"]
              /\ prod_event' = [prod_event EXCEPT !["log"] = ev]
              /\ UNCHANGED discarded
         ELSE /\ discarded' = Append(discarded, log)
              /\ UNCHANGED <<prod_pc, prod_event>>
    /\ produced' = produced + 1
    /\ UNCHANGED <<chan, orch_event, orch_alerts, emitted, consumed,
                   stateFrame, alertFrame, ruleFrame, uiFrame, now>>

\* watch_logs: the subscription stream ends and the task returns.
LogStreamEnds ==
    /\ prod_pc["log"] = "wait"
    /\ prod_pc' = [prod_pc EXCEPT !["log"] = "stopped"]
    /\ UNCHANGED <<chan, prod_event, orch_event, orch_alerts, pipeGhost,
                   stateFrame, alertFrame, ruleFrame, uiFrame, now>>

\* simulator task: wakes from its sleep, builds a mock event and hands it to
\* tx_sim.send.
SimulatorDraws ==
    IF produced < FreeEventsFrom THEN {FillDraw(produced)}
    ELSE (0..2) \X SimValues

Simulate ==
    /\ prod_pc["sim"] = "wait"
    /\ produced < FreeEventsFrom + MaxEvents
    /\ \E draw \in SimulatorDraws :
         prod_event' = [prod_event EXCEPT !["sim"] =
                            Some(simulator_event(draw[1], draw[2]))]
    /\ prod_pc' = [prod_pc EXCEPT !["sim"] = "send"]
    /\ produced' = produced + 1
    /\ UNCHANGED <<chan, orch_event, orch_alerts, discarded, emitted, consumed,
                   stateFrame, alertFrame, ruleFrame, uiFrame, now>>

\* tx.send(event).await of a producer that overwrites the newest queued event
\* when the channel is full
Send_overwrite_when_full(p) ==
    /\ prod_pc[p] = "send"
    /\ chan' = IF Len(chan) < ChannelCap THEN Append(chan, prod_event[p][1])
               ELSE [chan EXCEPT ![Len(chan)] = prod_event[p][1]]
    /\ prod_pc' = [prod_pc EXCEPT ![p] = "wait"]
    /\ prod_event' = [prod_event EXCEPT ![p] = None]
    /\ emitted' = Append(emitted, prod_event[p][1])
    /\ UNCHANGED <<orch_event, orch_alerts, produced, discarded, consumed,
                   stateFrame, alertFrame, ruleFrame, uiFrame, now>>

\* tx.send(event).await of a producer completes: the channel has capacity
\* and takes the event.
Send(p) ==
    /\ prod_pc[p] = "send"
    /\ Len(chan) < ChannelCap
    /\ chan' = Append(chan, prod_event[p][1])
    /\ prod_pc' = [prod_pc EXCEPT ![p] = "wait"]
    /\ prod_event' = [prod_event EXCEPT ![p] = None]
    /\ emitted' = Append(emitted, prod_event[p][1])
    /\ UNCHANGED <<orch_event, orch_alerts, produced, discarded, consumed,
                   stateFrame, alertFrame, ruleFrame, uiFrame, now>>

LogSend == Send("log")

SimSend == Send("sim")

\* orchestrator: rx.recv() yields the newest queued event
OrchRecv_newest_first ==
    /\ send_pc = "idle"
    /\ orch_alerts = <<>>
    /\ chan # <<>>
    /\ orch_event' = Some(chan[Len(chan)])
    /\ \E alerts \in {process(engine, chan[Len(chan)])} :
         /\ rule_results' = alerts
         /\ orch_alerts' = alerts
    /\ consumed' = Append(consumed, chan[Len(chan)])
    /\ chan' = SubSeq(chan, 1, Len(chan) - 1)
    /\ UNCHANGED <<prod_pc, prod_event, produced, discarded, emitted, engine,
                   ruleGhost, stateFrame, alertFrame, uiFrame, now>>

\* orchestrator: rx.recv() yields only the first event ever
OrchRecv_once ==
    /\ consumed = <<>>
    /\ send_pc = "idle"
    /\ orch_alerts = <<>>
    /\ chan # <<>>
    /\ orch_event' = Some(Head(chan))
    /\ \E alerts \in {process(engine, Head(chan))} :
         /\ rule_results' = alerts
         /\ orch_alerts' = alerts
    /\ consumed' = Append(consumed, Head(chan))
    /\ chan' = Tail(chan)
    /\ UNCHANGED <<prod_pc, prod_event, produced, discarded, emitted, engine,
                   ruleGhost, stateFrame, alertFrame, uiFrame, now>>

\* orchestrator: rx.recv() yields the next event and engine.process runs on it.
OrchRecv ==
    /\ send_pc = "idle"
    /\ orch_alerts = <<>>
    /\ chan # <<>>
    /\ orch_event' = Some(Head(chan))
    /\ \E alerts \in {process(engine, Head(chan))} :
         /\ rule_results' = alerts
         /\ orch_alerts' = alerts
    /\ consumed' = Append(consumed, Head(chan))
    /\ chan' = Tail(chan)
    /\ UNCHANGED <<prod_pc, prod_event, produced, discarded, emitted, engine,
                   ruleGhost, stateFrame, alertFrame, uiFrame, now>>

\* orchestrator: an alert that repeats the newest record (same severity and
\* message) is recorded but not passed to send_alert
OrchAlert_repeat_not_sent ==
    /\ orch_alerts # <<>>
    /\ LET msg == Head(orch_alerts)[1]
           severity == Head(orch_alerts)[2]
           chain == orch_event[1].chain_name
       IN  /\ add_alert(severity, chain, msg)
           /\ IF /\ alert_history # <<>>
                 /\ alert_history[Len(alert_history)][1] = severity
                 /\ alert_history[Len(alert_history)][3] = msg
              THEN UNCHANGED alertFrame
              ELSE send_alert(severity, msg)
           /\ last_call' = <<"add_alert", severity, chain, msg>>
           /\ calls_made' = [calls_made EXCEPT ![severity] = @ + 1]
           /\ all_records' = LogAlert(all_records, severity, chain, msg, now)
    /\ op_count' = op_count + 1
    /\ orch_alerts' = Tail(orch_alerts)
    /\ UNCHANGED <<chain_heights, last_block_time, rule_hits, workload,
                   chan, prod_pc, prod_event, orch_event, pipeGhost, ruleFrame, uiFrame, now>>

\* orchestrator: the next (msg, severity) is recorded under the event's
\* chain_id instead of its chain_name
OrchAlert_chain_id ==
    /\ orch_alerts # <<>>
    /\ LET msg == Head(orch_alerts)[1]
           severity == Head(orch_alerts)[2]
           chain == "1"
       IN  /\ add_alert(severity, chain, msg)
           /\ send_alert(severity, msg)
           /\ last_call' = <<"add_alert", severity, chain, msg>>
           /\ calls_made' = [calls_made EXCEPT ![severity] = @ + 1]
           /\ all_records' = LogAlert(all_records, severity, chain, msg, now)
    /\ op_count' = op_count + 1
    /\ orch_alerts' = Tail(orch_alerts)
    /\ UNCHANGED <<chain_heights, last_block_time, rule_hits, workload,
                   chan, prod_pc, prod_event, orch_event, pipeGhost, ruleFrame, uiFrame, now>>

\* orchestrator: the next (msg, severity) of the event is recorded with
\* state.add_alert and passed to alert_manager.send_alert.
OrchAlert ==
    /\ orch_alerts # <<>>
    /\ LET msg == Head(orch_alerts)[1]
           severity == Head(orch_alerts)[2]
           chain == orch_event[1].chain_name
       IN  /\ add_alert(severity, chain, msg)
           /\ send_alert(severity, msg)
           /\ last_call' = <<"add_alert", severity, chain, msg>>
           /\ calls_made' = [calls_made EXCEPT ![severity] = @ + 1]
           /\ all_records' = LogAlert(all_records, severity, chain, msg, now)
    /\ op_count' = op_count + 1
    /\ orch_alerts' = Tail(orch_alerts)
    /\ UNCHANGED <<chain_heights, last_block_time, rule_hits, workload,
                   chan, prod_pc, prod_event, orch_event, pipeGhost, ruleFrame, uiFrame, now>>

\* orchestrator, inside send_alert: the webhook POST returns.
OrchDiscordDone ==
    DiscordReturn /\ UNCHANGED <<stateFrame, ruleFrame, pipeFrame, uiFrame, now>>

\* orchestrator, inside send_alert: the Telegram POST returns.
OrchTelegramDone ==
    TelegramReturn /\ UNCHANGED <<stateFrame, ruleFrame, pipeFrame, uiFrame, now>>

BothProviders ==
    [webhook_url |-> "https://discord.example/api/webhooks/1",
     telegram_bot_token |-> Some("123:token"), telegram_chat_id |-> Some("42")]
PipeAlertsConfigs ==
    {NoProviders,
     [webhook_url |-> "https://discord.example/api/webhooks/1",
      telegram_bot_token |-> None, telegram_chat_id |-> None],
     BothProviders}

PipeRulesConfigs ==
    [transfer_threshold : [min_value : {Dec_1000}, severity : {"High"}],
     ownership_change : [enabled : {TRUE}, severity : {"Critical"}]]

\* main up to the spawning of the tasks, with the alerts section of the
\* configuration taken from configs
MainInit(configs) ==
    /\ now = 0
    /\ AppStateNew
    /\ StateGhostInit
    /\ \E config \in configs : AlertManagerNew(config)
    /\ \E rules_config \in PipeRulesConfigs : engine = MainRules(rules_config)
    /\ rule_results = <<>>
    /\ rule_phase = "main"
    /\ rule_event = None
    /\ rule_checks = <<>>
    /\ PipelineIdle
    /\ UiIdle

Init == MainInit(PipeAlertsConfigs) /\ workload = "free"

Orchestrator == OrchRecv \/ OrchAlert \/ OrchDiscordDone \/ OrchTelegramDone

ProducerTasks == LogArrives \/ LogStreamEnds \/ LogSend \/ Simulate \/ SimSend

PipeTick == TickUpTo(MaxPipeNow)

Next == ProducerTasks \/ Orchestrator \/ PipeTick

\* The pipeline, any interleaving of its tasks.
Spec == Init /\ [][Next]_vars

\* The tasks alone: the clock stands, so the cooldown of a dispatched alert
\* never runs out.
NextTasks == ProducerTasks \/ Orchestrator

\* The pipeline with both providers configured, under a fair scheduler of the
\* orchestrator task and with every POST returning.  The producers get no
\* fairness: a subscription or the simulator may fall silent at any point.
InitLive == MainInit({BothProviders}) /\ workload = "free"

SpecLive ==
    /\ InitLive
    /\ [][NextTasks]_vars
    /\ WF_vars(OrchRecv)
    /\ WF_vars(OrchAlert)
    /\ WF_vars(OrchDiscordDone)
    /\ WF_vars(OrchTelegramDone)

\* The pipeline when the watched contract is on polygon.
InitPolygon == MainInit({BothProviders}) /\ workload = "polygon"

SpecPolygon == InitPolygon /\ [][NextTasks]_vars

\* The pipeline fed by a burst that can fill the channel.
InitChannel == MainInit({BothProviders}) /\ workload = "fill"

SpecChannel == InitChannel /\ [][NextTasks]_vars

(***************************************************************************)
(* main at startup: the chain loop and the spawning of the tasks           *)
(***************************************************************************)
\* The contracts of the configuration that are on a chain.
ContractsOn(config, chain_name) ==
    {contract \in config.contracts : contract.chain = chain_name}

\* One iteration of the chain loop that starts the block task only
ConnectChain_block_task_only ==
    /\ main_pc = "chains"
    /\ \E chain_name \in app_config.chains \ DOMAIN providers :
         \E result \in {"ok", "err"} :
             /\ providers' = MapInsert(providers, chain_name, result)
             /\ tasks' = IF result = "err" THEN tasks
                         ELSE tasks \cup {<<"watch_blocks", chain_name>>}
    /\ UNCHANGED <<app_config, main_pc, tuiVars, lockVars, stateFrame, alertFrame, ruleFrame,
                   pipeFrame, now>>

\* One iteration of the chain loop: connect fails (continue) or succeeds (the
\* block task and one log task per contract of this chain are spawned).
ConnectChain ==
    /\ main_pc = "chains"
    /\ \E chain_name \in app_config.chains \ DOMAIN providers :
         \E result \in {"ok", "err"} :
             /\ providers' = MapInsert(providers, chain_name, result)
             /\ tasks' = IF result = "err" THEN tasks
                         ELSE tasks \cup {<<"watch_blocks", chain_name>>}
                                    \cup {<<"watch_logs", chain_name, contract.name>> :
                                            contract \in ContractsOn(app_config, chain_name)}
    /\ UNCHANGED <<app_config, main_pc, tuiVars, lockVars, stateFrame, alertFrame, ruleFrame,
                   pipeFrame, now>>

\* The chain loop is over; the simulator task is spawned under --simulate.
SpawnSimulator ==
    /\ main_pc = "chains"
    /\ app_config.chains \subseteq DOMAIN providers
    /\ tasks' = IF app_config.simulate THEN tasks \cup {<<"simulator">>} ELSE tasks
    /\ main_pc' = "orchestrator"
    /\ UNCHANGED <<app_config, providers, tuiVars, lockVars, stateFrame, alertFrame, ruleFrame,
                   pipeFrame, now>>

\* The orchestrator task is spawned.
SpawnOrchestrator ==
    /\ main_pc = "orchestrator"
    /\ tasks' = tasks \cup {<<"orchestrator">>}
    /\ main_pc' = "tui"
    /\ UNCHANGED <<app_config, providers, tuiVars, lockVars, stateFrame, alertFrame, ruleFrame,
                   pipeFrame, now>>

\* main calls run_tui on its own thread.
MainRunTui ==
    /\ main_pc = "tui"
    /\ tui_pc = "not called"
    /\ tui_pc' = "enable_raw_mode"
    /\ main_pc' = "in tui"
    /\ UNCHANGED <<app_config, providers, tasks, terminal, current_filter_index, res,
                   run_tui_result, lockVars, stateFrame, alertFrame, ruleFrame, pipeFrame, now>>

\* Configurations of the chains and contracts.
ConfigChains == {"ethereum", "polygon"}
Contract(name, chain) == [name |-> name, chain |-> chain]
ContractPool ==
    {Contract("USDT", "ethereum"), Contract("WETH", "ethereum"),
     Contract("USDC", "polygon")}
AppConfigs ==
    [chains : SUBSET ConfigChains, contracts : SUBSET ContractPool,
     simulate : BOOLEAN]

(***************************************************************************)
(* The dashboard: run_tui and run_app                                      *)
(***************************************************************************)
\* Vec<String>::sort on chain names (byte order), for the names in use.
ChainNamesSorted == <<"Simulation", "base", "ethereum", "polygon">>
SortChains(names) == SelectSeq(ChainNamesSorted, LAMBDA c : c \in names)

\* The filter list of a render.
active_chains(heights) == <<"ALL">> \o SortChains(DOMAIN heights)

\* The byte length of a message made of the given pieces.
PieceLen(piece) ==
    CASE piece = "Ownership Transferred!" -> 22
      [] piece = "High Approval Detected" -> 22
      [] OTHER -> 1
RECURSIVE MsgLen(_)
MsgLen(msg) == IF msg = <<>> THEN 0 ELSE PieceLen(Head(msg)) + MsgLen(Tail(msg))

\* The message cell of a row.
display_msg(msg, count) ==
    LET shown == IF MsgLen(msg) > 50 THEN <<"first 47 bytes of", msg, "...">>
                 ELSE msg
    IN  IF count > 1 THEN <<shown, " (x", count, ")">> ELSE <<shown>>

\* The row of a history record: chain, severity, age, message.
Row(rec, t) == <<rec[2], rec[1], t - rec[4], display_msg(rec[3], rec[5])>>

\* Whether a record passes the two filters of the table.
PassesFilters(rec, selected_filter) ==
    /\ rec[1] # "Low"
    /\ selected_filter = "ALL" \/ rec[2] = selected_filter

\* The table that takes the first 15 records that pass, oldest first
TableSources_oldest_first(history, selected_filter) ==
    LET passing == {i \in DOMAIN history : PassesFilters(history[i], selected_filter)}
        n == IF Cardinality(passing) < 15 THEN Cardinality(passing) ELSE 15
    IN  [k \in 1..n |->
            CHOOSE i \in passing : Cardinality({j \in passing : j < i}) = k - 1]

\* history.iter().rev().filter(..).filter(..).take(15): the positions in the
\* history of the records shown, in the order of the rows.
TableSources(history, selected_filter) ==
    LET passing == {i \in DOMAIN history : PassesFilters(history[i], selected_filter)}
        n == IF Cardinality(passing) < 15 THEN Cardinality(passing) ELSE 15
    IN  [k \in 1..n |->
            CHOOSE i \in passing : Cardinality({j \in passing : j > i}) = k - 1]

\* What one terminal.draw call puts on the screen, and the filter index it
\* leaves behind.
Render(index) ==
    LET chains == active_chains(chain_heights)
        valid == IF index >= Len(chains) THEN 0 ELSE index
        selected_filter == chains[valid + 1]
        sources == TableSources(alert_history, selected_filter)
    IN  [index |-> valid,
         frame |-> [active_chains |-> chains,
                    selected_filter |-> selected_filter,
                    sources |-> sources,
                    rows |-> [k \in DOMAIN sources |-> Row(alert_history[sources[k]], now)]]]

TuiUnchanged == UNCHANGED <<mainVars, lockVars, stateFrame, alertFrame, ruleFrame, pipeFrame, now>>

\* run_tui returns
Return(result) ==
    /\ tui_pc' = "returned"
    /\ run_tui_result' = Some(result)

\* enable_raw_mode()?
EnableRawMode ==
    /\ tui_pc = "enable_raw_mode"
    /\ \E result \in {"ok", "err"} :
         IF result = "ok"
         THEN /\ terminal' = [terminal EXCEPT !.raw_mode = TRUE]
              /\ tui_pc' = "EnterAlternateScreen"
              /\ UNCHANGED run_tui_result
         ELSE /\ Return("Err")
              /\ UNCHANGED terminal
    /\ UNCHANGED <<current_filter_index, res>>
    /\ TuiUnchanged

\* execute!(stdout, EnterAlternateScreen)?
EnterAlternateScreen ==
    /\ tui_pc = "EnterAlternateScreen"
    /\ \E result \in {"ok", "err"} :
         IF result = "ok"
         THEN /\ terminal' = [terminal EXCEPT !.alternate_screen = TRUE]
              /\ tui_pc' = "Terminal::new"
              /\ UNCHANGED run_tui_result
         ELSE /\ Return("Err")
              /\ UNCHANGED terminal
    /\ UNCHANGED <<current_filter_index, res>>
    /\ TuiUnchanged

\* Terminal::new(backend)?, then run_app is entered
TerminalNew ==
    /\ tui_pc = "Terminal::new"
    /\ \E result \in {"ok", "err"} :
         IF result = "ok"
         THEN /\ tui_pc' = "draw"
              /\ UNCHANGED run_tui_result
         ELSE Return("Err")
    /\ current_filter_index' = 0
    /\ UNCHANGED <<terminal, res>>
    /\ TuiUnchanged

\* run_app: terminal.draw(..)? ; an Err ends run_app
Draw ==
    /\ tui_pc = "draw"
    /\ \E result \in {"ok", "err"} :
         IF result = "ok"
         THEN /\ terminal' = [terminal EXCEPT
                                  !.frame = Some(Render(current_filter_index).frame),
                                  !.cursor_hidden = TRUE]
              /\ current_filter_index' = Render(current_filter_index).index
              /\ tui_pc' = "poll"
              /\ UNCHANGED res
         ELSE /\ res' = Some("Err")
              /\ tui_pc' = "disable_raw_mode"
              /\ UNCHANGED <<terminal, current_filter_index>>
    /\ UNCHANGED run_tui_result
    /\ TuiUnchanged

\* run_app: event::poll(200 ms)? and event::read()?
PollKeys == {"q", "Tab", "x", "none"}
Poll ==
    /\ tui_pc = "poll"
    /\ \E result \in PollKeys \cup {"err"} :
         CASE result = "err" ->
                  /\ res' = Some("Err")
                  /\ tui_pc' = "disable_raw_mode"
                  /\ UNCHANGED current_filter_index
           [] result = "q" ->
                  /\ res' = Some("Ok")
                  /\ tui_pc' = "disable_raw_mode"
                  /\ UNCHANGED current_filter_index
           [] result = "Tab" ->
                  /\ current_filter_index' = current_filter_index + 1
                  /\ tui_pc' = "draw"
                  /\ UNCHANGED res
           [] OTHER ->
                  /\ tui_pc' = "draw"
                  /\ UNCHANGED <<current_filter_index, res>>
    /\ UNCHANGED <<terminal, run_tui_result>>
    /\ TuiUnchanged

\* disable_raw_mode()?
DisableRawMode ==
    /\ tui_pc = "disable_raw_mode"
    /\ \E result \in {"ok", "err"} :
         IF result = "ok"
         THEN /\ terminal' = [terminal EXCEPT !.raw_mode = FALSE]
              /\ tui_pc' = "LeaveAlternateScreen"
              /\ UNCHANGED run_tui_result
         ELSE /\ Return("Err")
              /\ UNCHANGED terminal
    /\ UNCHANGED <<current_filter_index, res>>
    /\ TuiUnchanged

\* execute!(terminal.backend_mut(), LeaveAlternateScreen)?
LeaveAlternateScreen ==
    /\ tui_pc = "LeaveAlternateScreen"
    /\ \E result \in {"ok", "err"} :
         IF result = "ok"
         THEN /\ terminal' = [terminal EXCEPT !.alternate_screen = FALSE]
              /\ tui_pc' = "show_cursor"
              /\ UNCHANGED run_tui_result
         ELSE /\ Return("Err")
              /\ UNCHANGED terminal
    /\ UNCHANGED <<current_filter_index, res>>
    /\ TuiUnchanged

\* terminal.show_cursor()?, then the error of run_app is printed and run_tui
\* returns Ok(())
ShowCursor ==
    /\ tui_pc = "show_cursor"
    /\ \E result \in {"ok", "err"} :
         IF result = "ok"
         THEN /\ terminal' = [terminal EXCEPT !.cursor_hidden = FALSE]
              /\ Return("Ok")
         ELSE /\ Return("Err")
              /\ UNCHANGED terminal
    /\ UNCHANGED <<current_filter_index, res>>
    /\ TuiUnchanged

RunTui ==
    \/ EnableRawMode \/ EnterAlternateScreen \/ TerminalNew \/ Draw \/ Poll
    \/ DisableRawMode \/ LeaveAlternateScreen \/ ShowCursor

(***************************************************************************)
(* SpecMain: the startup of main, for every configuration.                 *)
(***************************************************************************)
InitMain ==
    /\ now = 0
    /\ AppStateNew
    /\ StateGhostInit
    /\ workload = "free"
    /\ AlertManagerNew(NoProviders)
    /\ RuleEngineNew
    /\ PipelineIdle
    /\ \E config \in AppConfigs : MainAtChainLoop(config)
    /\ TuiNotCalled
    /\ LocksIdle

NextMain == ConnectChain \/ SpawnSimulator \/ SpawnOrchestrator \/ MainRunTui

SpecMain == InitMain /\ [][NextMain]_vars

(***************************************************************************)
(* SpecTui: the dashboard, with the orchestrator's add_alert calls and the *)
(* block tasks' update_block calls going on beside it.                     *)
(***************************************************************************)
InitTui ==
    /\ now = 0
    /\ AppStateNew
    /\ StateGhostInit
    /\ workload \in Workloads
    /\ AlertManagerNew(NoProviders)
    /\ RuleEngineNew
    /\ PipelineIdle
    /\ MainAtChainLoop(NoChains)
    /\ terminal = TerminalStart
    /\ tui_pc = "enable_raw_mode"
    /\ current_filter_index = 0
    /\ res = None
    /\ run_tui_result = None
    /\ LocksIdle

\* Under workload "fill" the history is filled before the dashboard starts.
\* The calls made beside the running dashboard take their arguments from:
TuiAlertInputs ==
    IF op_count < FreeFrom THEN {FillAlert(op_count)}
    ELSE StateSeverities \X StateChains \X {<<"Ownership Transferred!">>}
TuiBlockHeights == {100}

\* add_alert called by the orchestrator
BesideAddAlert ==
    /\ op_count < FreeFrom + MaxTuiCalls
    /\ op_count < FreeFrom => tui_pc = "enable_raw_mode"
    /\ \E a \in TuiAlertInputs :
         /\ add_alert(a[1], a[2], a[3])
         /\ last_call' = <<"add_alert", a[1], a[2], a[3]>>
         /\ calls_made' = [calls_made EXCEPT ![a[1]] = @ + 1]
         /\ all_records' = LogAlert(all_records, a[1], a[2], a[3], now)
    /\ op_count' = op_count + 1
    /\ UNCHANGED <<chain_heights, last_block_time, rule_hits, now, workload,
                   notState>>

\* update_block called by a block task
BesideUpdateBlock ==
    /\ op_count >= FreeFrom
    /\ op_count < FreeFrom + MaxTuiCalls
    /\ \E c \in StateChains, h \in TuiBlockHeights :
         /\ update_block(c, h)
         /\ last_call' = <<"update_block", c, h>>
    /\ op_count' = op_count + 1
    /\ UNCHANGED <<alert_history, severity_counts, rule_hits, now, workload,
                   calls_made, all_records, notState>>

NextTui == RunTui \/ BesideAddAlert \/ BesideUpdateBlock

SpecTui == InitTui /\ [][NextTui]_vars

(***************************************************************************)
(* SpecWindow: the dashboard and add_alert at the grain of their locks.    *)
(* add_alert takes the severity_counts lock, releases it, and then takes   *)
(* the alert_history lock; the draw closure reads chain_heights, then      *)
(* takes the severity_counts lock and keeps its guard while it takes the   *)
(* alert_history lock.                                                     *)
(***************************************************************************)
\* The draw closure holds the guard of severity_counts.
CountsLocked == draw_locals # None /\ draw_locals[1].holds_counts

\* Under workload "fill" the history holds HistoryCap - 2 records when the
\* dashboard starts; one call more is made there, so that a record is evicted
\* while the dashboard runs.
WindowCalls == IF workload = "fill" THEN MaxTuiCalls + 1 ELSE MaxTuiCalls

\* add_alert, first block: the severity is counted under the severity_counts
\* lock.
AddAlertCounts ==
    /\ add_alert_pc = None
    /\ ~CountsLocked
    /\ op_count < FreeFrom + WindowCalls
    /\ op_count < FreeFrom => tui_pc = "enable_raw_mode"
    /\ \E a \in TuiAlertInputs :
         /\ severity_counts' = MapIncrement(severity_counts, a[1])
         /\ add_alert_pc' = Some(a)
         /\ last_call' = <<"add_alert", a[1], a[2], a[3]>>
         /\ calls_made' = [calls_made EXCEPT ![a[1]] = @ + 1]
    /\ op_count' = op_count + 1
    /\ UNCHANGED <<chain_heights, last_block_time, alert_history, rule_hits, workload,
                   all_records, draw_locals, mainVars, tuiVars, alertFrame, ruleFrame,
                   pipeFrame, now>>

\* add_alert, second block: the history is updated under the alert_history
\* lock.
AddAlertHistory ==
    /\ add_alert_pc # None
    /\ LET a == add_alert_pc[1] IN
         /\ alert_history' = add_alert_history(alert_history, a[1], a[2], a[3], now)
         /\ all_records' = LogAlert(all_records, a[1], a[2], a[3], now)
    /\ add_alert_pc' = None
    /\ UNCHANGED <<chain_heights, last_block_time, severity_counts, rule_hits, workload,
                   op_count, last_call, calls_made, draw_locals, mainVars, tuiVars,
                   alertFrame, ruleFrame, pipeFrame, now>>

\* draw closure, chain filtering logic and header: chain_heights is read and
\* the filter index made valid; an Err of terminal.draw ends run_app.
DrawFilter ==
    /\ tui_pc = "draw"
    /\ \E result \in {"ok", "err"} :
         IF result = "ok"
         THEN LET chains == active_chains(chain_heights)
                  valid == IF current_filter_index >= Len(chains) THEN 0
                           ELSE current_filter_index
              IN  /\ current_filter_index' = valid
                  /\ draw_locals' = Some([active_chains |-> chains,
                                          selected_filter |-> chains[valid + 1],
                                          counts |-> None,
                                          holds_counts |-> FALSE])
                  /\ tui_pc' = "draw: severity_counts"
                  /\ UNCHANGED res
         ELSE /\ res' = Some("Err")
              /\ tui_pc' = "disable_raw_mode"
              /\ UNCHANGED <<current_filter_index, draw_locals>>
    /\ UNCHANGED <<terminal, run_tui_result, add_alert_pc, mainVars, stateFrame,
                   alertFrame, ruleFrame, pipeFrame, now>>

\* draw closure, summary bar chart, with the guard of severity_counts dropped
\* once the four counts are copied
DrawCounts_guard_dropped ==
    /\ tui_pc = "draw: severity_counts"
    /\ draw_locals' = Some([draw_locals[1] EXCEPT !.counts = Some(severity_counts),
                                                  !.holds_counts = FALSE])
    /\ tui_pc' = "draw: alert_history"
    /\ UNCHANGED <<terminal, current_filter_index, res, run_tui_result, add_alert_pc,
                   mainVars, stateFrame, alertFrame, ruleFrame, pipeFrame, now>>

\* draw closure, summary bar chart: severity_counts is locked and read; the
\* guard lives to the end of the closure.
DrawCounts ==
    /\ tui_pc = "draw: severity_counts"
    /\ draw_locals' = Some([draw_locals[1] EXCEPT !.counts = Some(severity_counts),
                                                  !.holds_counts = TRUE])
    /\ tui_pc' = "draw: alert_history"
    /\ UNCHANGED <<terminal, current_filter_index, res, run_tui_result, add_alert_pc,
                   mainVars, stateFrame, alertFrame, ruleFrame, pipeFrame, now>>

\* draw closure, alert table: alert_history is locked and read, the frame is
\* put on the screen and both guards are dropped.
DrawHistory ==
    /\ tui_pc = "draw: alert_history"
    /\ LET selected_filter == draw_locals[1].selected_filter
           sources == TableSources(alert_history, selected_filter)
       IN  terminal' = [terminal EXCEPT
                !.frame = Some([active_chains |-> draw_locals[1].active_chains,
                                selected_filter |-> selected_filter,
                                sources |-> sources,
                                rows |-> [k \in DOMAIN sources |->
                                             Row(alert_history[sources[k]], now)]]),
                !.cursor_hidden = TRUE]
    /\ draw_locals' = None
    /\ tui_pc' = "poll"
    /\ UNCHANGED <<current_filter_index, res, run_tui_result, add_alert_pc,
                   mainVars, stateFrame, alertFrame, ruleFrame, pipeFrame, now>>

NextWindow ==
    \/ EnableRawMode \/ EnterAlternateScreen \/ TerminalNew
    \/ DrawFilter \/ DrawCounts \/ DrawHistory \/ Poll
    \/ DisableRawMode \/ LeaveAlternateScreen \/ ShowCursor
    \/ AddAlertCounts \/ AddAlertHistory \/ BesideUpdateBlock

SpecWindow == InitTui /\ [][NextWindow]_vars

(***************************************************************************)
(* Claims about AppState                                                   *)
(***************************************************************************)
Triple(rec) == <<rec[1], rec[2], rec[3]>>

\* The last n elements of a sequence (all of it when it is shorter).
LastN(seq, n) ==
    IF Len(seq) <= n THEN seq ELSE SubSeq(seq, Len(seq) - n + 1, Len(seq))

\* This step is an add_alert call.
IsAddAlertStep == op_count' = op_count + 1 /\ last_call'[1] = "add_alert"

\* C1: the severity histogram counts every add_alert call, coalesced or not:
\* the total of severity_counts is the number of add_alert calls made and
\* severity_counts[s] is the number of calls made with severity s.
C1_SeverityCountsCountCalls ==
    /\ MapSum(severity_counts) = MapSum(calls_made)
    /\ \A s \in Severities : MapGet(severity_counts, s, 0) = calls_made[s]

\* C1 witness: a call was coalesced into the tail, and it was counted.
C1_Witness ==
    /\ Len(alert_history) = 1
    /\ alert_history[1][5] = 2
    /\ MapSum(severity_counts) = 2

\* C2: the history never holds more than 50 records and is always the most
\* recent (at most 50) records ever appended, in insertion order; a
\* non-coalescing add on a full history drops exactly the front record and
\* appends the new one at the tail.
C2_HistoryBoundedFifo ==
    /\ [](/\ Len(alert_history) <= 50
          /\ alert_history = LastN(all_records, 50))
    /\ [][(/\ IsAddAlertStep
            /\ Len(alert_history) = 50
            /\ Triple(alert_history[50]) # <<last_call'[2], last_call'[3], last_call'[4]>>)
           => alert_history' =
                Append(Tail(alert_history),
                       <<last_call'[2], last_call'[3], last_call'[4], now, 1>>)]_vars

\* C2 witness: the history is full and its oldest record has been evicted.
C2_Witness ==
    /\ Len(alert_history) = 50
    /\ Len(all_records) > 50
    /\ alert_history[1] = all_records[Len(all_records) - 49]

\* C3: an add_alert whose (severity, chain, message) equals the tail's leaves
\* the length and every other record unchanged and raises the tail's count by
\* exactly one; an add_alert that differs from the tail in any field (or
\* finds the history empty) appends a new record with count 1.
C3_TailCoalescing ==
    [][IsAddAlertStep =>
        LET n == Len(alert_history)
            t == <<last_call'[2], last_call'[3], last_call'[4]>>
        IN  IF n > 0 /\ Triple(alert_history[n]) = t
            THEN /\ Len(alert_history') = n
                 /\ \A i \in 1..(n - 1) : alert_history'[i] = alert_history[i]
                 /\ Triple(alert_history'[n]) = t
                 /\ alert_history'[n][5] = alert_history[n][5] + 1
            ELSE /\ Len(alert_history') = IF n < 50 THEN n + 1 ELSE 50
                 /\ Triple(alert_history'[Len(alert_history')]) = t
                 /\ alert_history'[Len(alert_history')][5] = 1]_vars

\* C3 witness: the tail was coalesced while the record before it differs from
\* it in the chain only.
C3_Witness ==
    /\ last_call[1] = "add_alert"
    /\ Len(alert_history) = 2
    /\ alert_history[2][5] = 2
    /\ alert_history[1][1] = alert_history[2][1]
    /\ alert_history[1][3] = alert_history[2][3]
    /\ alert_history[1][2] # alert_history[2][2]

\* C4: chain_heights never decreases for a chain: an update_block with a
\* lower height than the stored one leaves the stored height unchanged.
C4_HeightsMonotone ==
    [][\A c \in DOMAIN chain_heights :
          /\ c \in DOMAIN chain_heights'
          /\ chain_heights'[c] >= chain_heights[c]]_vars

\* C26: no two adjacent records of alert_history have the same (severity,
\* chain, message), and every record has a repeat count of at least 1.
C26_AdjacentRecordsDiffer ==
    /\ \A i \in DOMAIN alert_history : alert_history[i][5] >= 1
    /\ \A i \in 1..(Len(alert_history) - 1) :
          Triple(alert_history[i]) # Triple(alert_history[i + 1])

\* C26 witness: the history is full, and a record inside it has absorbed a
\* repeat before two more records were appended behind it.
C26_Witness ==
    /\ Len(alert_history) = HistoryCap
    /\ alert_history[HistoryCap - 2][5] = 2
    /\ last_call[1] = "add_alert"

(***************************************************************************)
(* Claims about the dispatcher                                             *)
(***************************************************************************)
\* The POSTs made to a provider by the send_alert calls numbered in calls.
PostsOf(provider, calls) ==
    {k \in DOMAIN posts : posts[k][1] = provider /\ posts[k][2] \in calls}

\* C5: of two send_alert calls with the same key made less than 60 s apart,
\* the first of which is dispatched, the second is suppressed and sends
\* nothing, so the two together make exactly one POST per enabled provider
\* (and none to a disabled one); two dispatches of one key are never less
\* than 60 s apart.
C5_CooldownOnePost ==
    \A i, j \in DOMAIN send_log :
        (/\ i < j
         /\ send_log[i][1] = send_log[j][1]
         /\ send_log[i][2] = send_log[j][2]
         /\ send_log[j][3] - send_log[i][3] < 60)
        => /\ ~(send_log[i][4] = "dispatched" /\ send_log[j][4] = "dispatched")
           /\ send_log[i][4] = "dispatched" =>
                 /\ send_log[j][4] = "suppressed"
                 /\ \A p \in {"discord", "telegram"} :
                       Cardinality(PostsOf(p, {i, j})) =
                           IF p \in EnabledProviders(alerts_config) THEN 1 ELSE 0
                 /\ \A p \in {"discord", "telegram"} : PostsOf(p, {j}) = {}

\* C5 witness: with both providers enabled, a call was dispatched and a call
\* of the same key 59 s later was suppressed.
C5_Witness ==
    /\ EnabledProviders(alerts_config) = {"discord", "telegram"}
    /\ Len(send_log) >= 2
    /\ send_log[1][4] = "dispatched"
    /\ send_log[2][4] = "suppressed"
    /\ send_log[1][1] = send_log[2][1]
    /\ send_log[2][3] - send_log[1][3] = 59
    /\ Len(posts) = 2

\* A credential that is missing or empty.
Blank(credential) == credential \in {None, Some("")}

\* C16: a provider with empty or missing credentials gets no POST: with an
\* empty webhook_url there is no webhook POST, with the Telegram bot token or
\* chat id missing or empty there is no Telegram POST, and with a webhook_url
\* every dispatched (non-suppressed) call has made its one webhook POST
\* whatever the Telegram credentials are.
C16_NoPostWithoutCredentials ==
    /\ alerts_config.webhook_url = "" => PostsOf("discord", DOMAIN send_log) = {}
    /\ (Blank(alerts_config.telegram_bot_token)
           \/ Blank(alerts_config.telegram_chat_id))
          => PostsOf("telegram", DOMAIN send_log) = {}
    /\ alerts_config.webhook_url # "" =>
          \A c \in DOMAIN send_log :
              Cardinality(PostsOf("discord", {c})) =
                  IF send_log[c][4] = "dispatched" THEN 1 ELSE 0

\* C16 witness: with a webhook_url, a bot token and an empty chat id, two
\* calls were dispatched and returned: two webhook POSTs and nothing else.
C16_Witness ==
    /\ alerts_config.webhook_url # ""
    /\ alerts_config.telegram_bot_token = Some("123:token")
    /\ alerts_config.telegram_chat_id = Some("")
    /\ Len(send_log) = 2
    /\ \A c \in {1, 2} : send_log[c][4] = "dispatched"
    /\ send_pc = "idle"
    /\ Len(posts) = 2
    /\ \A k \in {1, 2} : posts[k][1] = "discord" /\ posts[k][4] # "in flight"

\* The dispatched calls before call j that have its severity and message.
DispatchedBefore(j) ==
    {i \in 1..(j - 1) :
        /\ send_log[i][1] = send_log[j][1]
        /\ send_log[i][2] = send_log[j][2]
        /\ send_log[i][4] = "dispatched"}

\* C25: a suppressed send_alert call changes neither the cooldown map nor the
\* POSTs; the map holds for each key the time of its last dispatched call;
\* and a call made at least 60 s after the last dispatched call of its key
\* (or with no such call) is dispatched, however many calls of the key were
\* suppressed in between.
C25_SuppressedCallKeepsTimestamp ==
    /\ [][(send_log' # send_log /\ send_log'[Len(send_log')][4] = "suppressed") =>
              /\ last_alerts' = last_alerts
              /\ posts' = posts]_vars
    /\ [](\A j \in DOMAIN send_log :
              /\ (\A i \in DispatchedBefore(j) : send_log[j][3] - send_log[i][3] >= 60)
                    => send_log[j][4] = "dispatched"
              /\ send_log[j][4] = "dispatched" =>
                    /\ AlertKey(send_log[j][1], send_log[j][2]) \in DOMAIN last_alerts
                    /\ last_alerts[AlertKey(send_log[j][1], send_log[j][2])]
                           >= send_log[j][3])
    /\ [](\A key \in DOMAIN last_alerts :
              \E j \in DOMAIN send_log :
                  /\ AlertKey(send_log[j][1], send_log[j][2]) = key
                  /\ send_log[j][4] = "dispatched"
                  /\ send_log[j][3] = last_alerts[key])

\* C25 witness: a call dispatched at 0, the same alert suppressed at 59, and
\* the same alert dispatched again at 118, which is 59 s after the suppressed
\* call and 118 s after the dispatched one.
C25_Witness ==
    /\ Len(send_log) = 3
    /\ \A j \in 1..3 : send_log[j][1] = send_log[1][1] /\ send_log[j][2] = send_log[1][2]
    /\ send_log[1][3] = 0 /\ send_log[1][4] = "dispatched"
    /\ send_log[2][3] = 59 /\ send_log[2][4] = "suppressed"
    /\ send_log[3][3] = 118 /\ send_log[3][4] = "dispatched"

(***************************************************************************)
(* Claims about the rule engine                                            *)
(***************************************************************************)
\* The registered rules (by position) that fire on the processed event.
FiredRules == {i \in DOMAIN rule_checks : rule_checks[i] # None}

\* The k-th smallest position of a rule that fired.
KthFired(k) ==
    CHOOSE i \in FiredRules : Cardinality({j \in FiredRules : j <= i}) = k

\* C8: process returns exactly one entry for each rule that fired and none for
\* a rule that did not, in rule-registration order.
C8_ProcessInRegistrationOrder ==
    rule_event # None =>
        /\ DOMAIN rule_checks = DOMAIN engine
        /\ Len(rule_results) = Cardinality(FiredRules)
        /\ Len(rule_results) <= Len(engine)
        /\ \A k \in DOMAIN rule_results :
              rule_results[k] = rule_checks[KthFired(k)][1]

\* C8 witness: of three registered rules the first and the third fired, with
\* different results, and the second did not.
C8_Witness ==
    /\ rule_event # None
    /\ Len(engine) = 3
    /\ FiredRules = {1, 3}
    /\ Len(rule_results) = 2
    /\ rule_results[1] # rule_results[2]

\* A numeral of decimal digits only, at least one.
IsDecimal(str) ==
    /\ Len(str) > 0
    /\ \A i \in DOMAIN str : DigitValue(str[i]) \in 0..9

\* a >= b for decimal numerals without leading zeros
DecGe(a, b) ==
    \/ Len(a) > Len(b)
    \/ /\ Len(a) = Len(b)
       /\ \/ a = b
          \/ \E i \in DOMAIN a :
               /\ DigitValue(a[i]) > DigitValue(b[i])
               /\ \A j \in 1..(i - 1) : a[j] = b[j]

\* The decimal numeral a payload string denotes (the one hexadecimal payload
\* in ValueStrings is 1000).
DecimalOf(str) == IF str = Hex_1000 THEN Dec_1000 ELSE str

\* The payload value of the event is a string that denotes an unsigned 256-bit
\* integer.
HasUintValue(event) ==
    /\ "value" \in DOMAIN event.data
    /\ event.data["value"][1] = "string"
    /\ IsDecimal(DecimalOf(event.data["value"][2]))
    /\ DecGe(Dec_2p256m1, DecimalOf(event.data["value"][2]))

\* The i-th rule fired on the event if and only if the event is of this kind
\* and its value is at least the rule's bound.
FiresExactlyAtOrAbove(i, kind, event) ==
    rule_checks[i] # None <=>
        /\ event.event_type = <<kind>>
        /\ HasUintValue(event)
        /\ DecGe(DecimalOf(event.data["value"][2]), U256Display(engine[i].value))

\* C9: ThresholdRule fires exactly on a Transfer whose value parses as an
\* unsigned integer >= min_value (equality fires) and then returns the
\* rule's severity; a lone ThresholdRule makes process return that result.
C9_ThresholdRuleFires ==
    rule_event # None =>
        \A i \in DOMAIN engine :
            engine[i].kind = "ThresholdRule" =>
                /\ FiresExactlyAtOrAbove(i, "Transfer", rule_event[1])
                /\ i \in FiredRules =>
                     rule_checks[i][1][2] = engine[i].severity
                /\ Len(engine) = 1 =>
                     rule_results =
                         IF i \in FiredRules
                         THEN <<rule_checks[i][1]>> ELSE <<>>

\* C9 witness: a lone ThresholdRule(1000, High) fired on a Transfer of exactly
\* 1000.
C9_Witness ==
    /\ rule_event # None
    /\ Len(engine) = 1
    /\ engine[1].kind = "ThresholdRule"
    /\ U256Display(engine[1].value) = Dec_1000
    /\ rule_event[1].event_type = <<"Transfer">>
    /\ rule_event[1].data = [value |-> <<"string", Dec_1000>>]
    /\ Len(rule_results) = 1
    /\ rule_results[1][2] = "High"

\* C10: HighApprovalRule fires exactly on an Approval whose value is >= the
\* threshold (equality fires) and then returns the rule's severity; the rule
\* that main registers last has threshold (2^256 - 1) >> 1 = 2^255 - 1 and
\* severity Critical.
C10_HighApprovalRuleFires ==
    /\ rule_event # None =>
          \A i \in DOMAIN engine :
              engine[i].kind = "HighApprovalRule" =>
                  /\ FiresExactlyAtOrAbove(i, "Approval", rule_event[1])
                  /\ i \in FiredRules =>
                       rule_checks[i][1][2] = engine[i].severity
                  /\ Len(engine) = 1 =>
                       rule_results =
                           IF i \in FiredRules
                           THEN <<rule_checks[i][1]>> ELSE <<>>
    /\ rule_phase = "main" =>
          /\ engine[Len(engine)].kind = "HighApprovalRule"
          /\ U256Display(engine[Len(engine)].value) = Dec_2p255m1
          /\ engine[Len(engine)].severity = "Critical"
          /\ \A i \in 1..(Len(engine) - 1) : engine[i].kind # "HighApprovalRule"

\* C10 witness: the engine built by main processed an Approval of exactly
\* 2^255 - 1 and returned one Critical result.
C10_Witness ==
    /\ rule_phase = "main"
    /\ rule_event # None
    /\ rule_event[1].event_type = <<"Approval">>
    /\ rule_event[1].data = [value |-> <<"string", Dec_2p255m1>>]
    /\ Len(rule_results) = 1
    /\ rule_results[1][2] = "Critical"

\* The rules and the event sequence of the three-rule scenario.
S3Rules ==
    <<ThresholdRule(U256From(1000), "High"),
      OwnershipRule("Critical"),
      HighApprovalRule(U256Pow255, "Critical")>>
S3Events ==
    <<Event(1, "ethereum", <<"Transfer">>, [value |-> <<"string", Dec_500>>]),
      Event(1, "ethereum", <<"OwnershipTransferred">>, EmptyMap),
      Event(1, "ethereum", <<"Approval">>, [value |-> <<"string", Dec_2p255>>])>>

\* C11: an OwnershipRule fires exactly on the OwnershipTransferred events,
\* whatever the payload, with the message "Ownership Transferred!" and its own
\* severity; and an engine with the rules ThresholdRule(1000, High),
\* OwnershipRule(Critical), HighApprovalRule(2^255, Critical) returns nothing
\* for Transfer(500), one Critical alert for OwnershipTransferred and one
\* Critical alert for Approval(2^255): two alerts, none from ThresholdRule.
C11_OwnershipRuleFires ==
    rule_event # None =>
        /\ \A i \in DOMAIN engine :
              engine[i].kind = "OwnershipRule" =>
                  /\ rule_checks[i] # None <=>
                         rule_event[1].event_type = <<"OwnershipTransferred">>
                  /\ rule_checks[i] # None =>
                         rule_checks[i][1] =
                             <<<<"Ownership Transferred!">>, engine[i].severity>>
        /\ engine = S3Rules =>
              /\ process(engine, S3Events[1]) = <<>>
              /\ process(engine, S3Events[2]) =
                     <<<<<<"Ownership Transferred!">>, "Critical">>>>
              /\ Len(process(engine, S3Events[3])) = 1
              /\ process(engine, S3Events[3])[1][2] = "Critical"
              /\ \A k \in DOMAIN S3Events :
                     ThresholdRule_check(engine[1], S3Events[k]) = None
              /\ Len(process(engine, S3Events[1]) \o process(engine, S3Events[2])
                         \o process(engine, S3Events[3])) = 2

\* C11 witness: the engine of the scenario processed an OwnershipTransferred
\* event that carries a value and returned the one Critical ownership alert.
C11_Witness ==
    /\ engine = S3Rules
    /\ rule_event # None
    /\ rule_event[1].event_type = <<"OwnershipTransferred">>
    /\ rule_event[1].data = [value |-> <<"string", Dec_999>>]
    /\ rule_results = <<<<<<"Ownership Transferred!">>, "Critical">>>>

(***************************************************************************)
(* Claims about the pipeline                                               *)
(***************************************************************************)
\* The producers whose tx.send has not completed.
Sending == {p \in Producers : prod_pc[p] = "send"}

\* C6: the channel never holds more than 100 events; every event handed to
\* tx.send is still with its producer, in the channel, or was received by the
\* orchestrator, in the order sent; a producer that sends on a full channel
\* stays suspended with its event; and the channel changes only by a send
\* appending at the back or the orchestrator receiving the front.
C6_BoundedChannelBackpressure ==
    /\ [](/\ Len(chan) <= 100
          /\ emitted = consumed \o chan
          /\ produced = Len(emitted) + Len(discarded) + Cardinality(Sending)
          /\ \A p \in Producers : (p \in Sending) <=> (prod_event[p] # None))
    /\ [][\A p \in Sending :
            Len(chan) = 100 =>
                /\ prod_pc'[p] = "send"
                /\ prod_event'[p] = prod_event[p]
                /\ chan' \in {chan, Tail(chan)}]_vars
    /\ [][chan' # chan =>
            \/ /\ chan # <<>>
               /\ chan' = Tail(chan)
               /\ consumed' = Append(consumed, Head(chan))
            \/ \E p \in Sending :
                 /\ chan' = Append(chan, prod_event[p][1])
                 /\ prod_event'[p] = None]_vars

\* C6 witness: the channel holds 100 events and both producers are suspended
\* in tx.send with their events.
C6_Witness ==
    /\ Len(chan) = 100
    /\ Sending = Producers
    /\ prod_event["log"] # prod_event["sim"]

\* No producer is sending and none can take up another event.
ProducersQuiet ==
    /\ Sending = {}
    /\ produced >= FreeEventsFrom + MaxEvents

\* C7: under a fair scheduler of the orchestrator and with every POST
\* returning, the k-th event that entered the channel is eventually the k-th
\* event the orchestrator has received; the orchestrator receives an event
\* only from the front of the channel and runs the rule engine on it in the
\* same step, keeping the alerts it returns; and once the producers are quiet
\* the channel drains to empty with every emitted event consumed.
C7_EveryEventConsumed ==
    /\ \A k \in 1..MaxEvents :
         (Len(emitted) >= k) ~> (Len(consumed) >= k /\ consumed[k] = emitted[k])
    /\ [][consumed' # consumed =>
            /\ chan # <<>>
            /\ consumed' = Append(consumed, Head(chan))
            /\ orch_event' = Some(Head(chan))
            /\ rule_results' = process(engine, Head(chan))
            /\ orch_alerts' = rule_results']_vars
    /\ ProducersQuiet ~> (chan = <<>> /\ consumed = emitted)

\* C7 witness: two events were emitted, both were consumed, a POST was made
\* for one of them and returned, and the channel is empty.
C7_Witness ==
    /\ Len(emitted) = 2
    /\ consumed = emitted
    /\ chan = <<>>
    /\ send_pc = "idle"
    /\ orch_alerts = <<>>
    /\ posts # <<>>

\* The three event signatures watch_logs knows.
KnownSignatures == {"OwnershipTransferred", "Transfer", "Approval"}

\* C12: a log whose topic0 matches none of the three known signatures is
\* emitted into the channel as an event of kind Unknown(topic0): the log task
\* never drops such a log, and an Unknown event the orchestrator receives
\* triggers no rule.
C12_UnknownLogEmitted ==
    /\ \A i \in DOMAIN discarded : discarded[i].topic0 \in KnownSignatures
    /\ \A i \in DOMAIN consumed :
          consumed[i].event_type[1] = "Unknown" => process(engine, consumed[i]) = <<>>

\* The results RuleEngine::process returns for a sequence of events, in order.
RECURSIVE AllResults(_)
AllResults(events) ==
    IF events = <<>> THEN <<>>
    ELSE process(engine, Head(events)) \o AllResults(Tail(events))

\* C14: the orchestrator calls add_alert once per result of the rule engine,
\* with the chain name of the event, and passes the same result to
\* send_alert; the alerts it still has to handle are the rest of the
\* results of the event in hand; and the total of severity_counts is the
\* number of results over the consumed events (fewer by the results of the
\* event in hand that are still to be handled), so an event without a
\* result adds nothing.
C14_OneAlertPerResult ==
    /\ [](MapSum(severity_counts) + Len(orch_alerts) = Len(AllResults(consumed)))
    /\ [](orch_alerts # <<>> =>
             \E k \in 1..Len(rule_results) :
                 orch_alerts = SubSeq(rule_results, k, Len(rule_results)))
    /\ [][(severity_counts' # severity_counts \/ alert_history' # alert_history
            \/ send_log' # send_log) =>
              /\ orch_alerts # <<>>
              /\ orch_alerts' = Tail(orch_alerts)
              /\ op_count' = op_count + 1
              /\ last_call' = <<"add_alert", Head(orch_alerts)[2],
                                orch_event[1].chain_name, Head(orch_alerts)[1]>>
              /\ Triple(alert_history'[Len(alert_history')]) =
                     <<Head(orch_alerts)[2], orch_event[1].chain_name,
                       Head(orch_alerts)[1]>>
              /\ MapSum(severity_counts') = MapSum(severity_counts) + 1
              /\ Len(send_log') = Len(send_log) + 1
              /\ send_log'[Len(send_log')][1] = Head(orch_alerts)[2]
              /\ send_log'[Len(send_log')][2] = Head(orch_alerts)[1]]_vars

\* C14 witness: two events were consumed, the first triggered no rule and
\* the second did; its one result is recorded and dispatched.
C14_Witness ==
    /\ Len(consumed) = 2
    /\ process(engine, consumed[1]) = <<>>
    /\ Len(process(engine, consumed[2])) = 1
    /\ orch_alerts = <<>>
    /\ MapSum(severity_counts) = 1
    /\ Len(alert_history) = 1
    /\ alert_history[1][2] = consumed[2].chain_name
    /\ Len(send_log) = 1

\* Some POST has failed.
SomePostFailed == \E k \in DOMAIN posts : posts[k][4] = "err"

\* The send_alert calls that have returned.
ReturnedCalls ==
    {c \in DOMAIN send_log : c < Len(send_log) \/ send_pc = "idle"}

\* C15: with both providers configured, every dispatched send_alert call that
\* has returned made one webhook POST and one Telegram POST whatever their
\* results; a webhook POST that fails is followed at once by the Telegram
\* POST of the same call; a running send_alert call always returns; and after
\* a failed POST the orchestrator still handles every alert and every event
\* that was sent.
C15_ProviderFailureIsolated ==
    /\ [](\A c \in ReturnedCalls :
             send_log[c][4] = "dispatched" =>
                 /\ Cardinality(PostsOf("discord", {c})) = 1
                 /\ Cardinality(PostsOf("telegram", {c})) = 1)
    /\ [][(send_pc = "discord" /\ posts'[Len(posts)][4] = "err") =>
              /\ send_pc' = "telegram"
              /\ posts'[Len(posts')] =
                     <<"telegram", posts[Len(posts)][2], now, "in flight">>]_vars
    /\ (send_pc # "idle") ~> (send_pc = "idle")
    /\ (SomePostFailed /\ ProducersQuiet) ~>
           (chan = <<>> /\ consumed = emitted /\ orch_alerts = <<>>
            /\ send_pc = "idle")

\* C15 witness: both POSTs of the first alert failed, send_alert returned,
\* and the orchestrator went on to the next event and dispatched its alert.
C15_Witness ==
    /\ Len(posts) = 4
    /\ posts[1] = <<"discord", 1, 0, "err">>
    /\ posts[2] = <<"telegram", 1, 0, "err">>
    /\ posts[3][1] = "discord" /\ posts[3][2] = 2
    /\ Len(consumed) = 2
    /\ send_pc = "idle"

\* The Transfer of 2000 the log task emits for the watched contract.
Transfer2000 ==
    Event(1, LogChain, <<"Transfer">>, [value |-> <<"string", <<"2", "0", "0", "0">>>>])

\* C20: when the first two events the orchestrator consumes are the same
\* Transfer of 2000 and their alerts are handled less than 60 s apart,
\* alert_history holds one record for them with repeat count 2, the second
\* send_alert call is suppressed, and one webhook POST was made when a
\* webhook is configured (none otherwise).
C20_RepeatedTransferCoalesced ==
    (/\ Len(consumed) = 2
     /\ consumed[1] = Transfer2000
     /\ consumed[2] = Transfer2000
     /\ orch_alerts = <<>>
     /\ Len(send_log) = 2
     /\ send_log[2][3] - send_log[1][3] < 60)
    => /\ Len(alert_history) = 1
       /\ alert_history[1][1] = "High"
       /\ alert_history[1][2] = LogChain
       /\ alert_history[1][5] = 2
       /\ MapSum(severity_counts) = 2
       /\ send_log[1][4] = "dispatched"
       /\ send_log[2][4] = "suppressed"
       /\ Cardinality(PostsOf("discord", {1, 2})) =
              IF alerts_config.webhook_url # "" THEN 1 ELSE 0

\* C20 witness: the two Transfers of 2000 were handled 59 s apart with a
\* webhook configured: one record with count 2 and one webhook POST.
C20_Witness ==
    /\ Len(consumed) = 2
    /\ consumed[1] = Transfer2000
    /\ consumed[2] = Transfer2000
    /\ orch_alerts = <<>>
    /\ Len(send_log) = 2
    /\ send_log[2][3] - send_log[1][3] = 59
    /\ alerts_config.webhook_url # ""
    /\ Len(alert_history) = 1
    /\ alert_history[1][5] = 2
    /\ Cardinality(PostsOf("discord", {1, 2})) = 1
    /\ send_pc = "idle"

\* A log with a known signature that does not decode.
Malformed(log) == log.topic0 \in KnownSignatures /\ ~log.decodes

\* A log with a known signature that decodes.
WellFormed(log) == log.topic0 \in KnownSignatures /\ log.decodes

\* C21: the step in which the log task drops a malformed log sends nothing
\* and leaves the task waiting for the next log; no event in the channel
\* history comes from a malformed log; and whenever the task waits for a log
\* (also after it dropped malformed ones), each well-formed log of the
\* subscription is decoded and handed to tx.send as its event.
C21_MalformedLogDropped ==
    /\ [][(discarded' # discarded /\ Malformed(discarded'[Len(discarded')])) =>
              /\ discarded' = Append(discarded, discarded'[Len(discarded')])
              /\ chan' = chan
              /\ emitted' = emitted
              /\ prod_event' = prod_event
              /\ prod_pc'["log"] = "wait"]_vars
    /\ [](\A i \in DOMAIN emitted :
              emitted[i].chain_name = LogChain =>
                  \E log \in Logs :
                      WellFormed(log) /\ emitted[i] = watch_logs_event(LogChain, log)[1])
    /\ [](/\ prod_pc["log"] = "wait"
          /\ produced >= FreeEventsFrom
          /\ produced < FreeEventsFrom + MaxEvents
          => \A log \in {l \in Logs : WellFormed(l)} :
                 ENABLED (/\ LogArrives
                          /\ prod_pc'["log"] = "send"
                          /\ prod_event'["log"] =
                                 Some(Event(1, LogChain, <<log.topic0>>, log.data))))

\* C21 witness: the log task dropped a malformed Transfer log and is now
\* sending the event of the well-formed Transfer that came after it.
C21_Witness ==
    /\ Len(discarded) = 1
    /\ Malformed(discarded[1])
    /\ prod_pc["log"] = "send"
    /\ prod_event["log"] = Some(Transfer2000)

\* The alerts of a sequence of events as add_alert gets them: (severity,
\* chain, message), event by event and rule by rule.
RECURSIVE AlertsInOrder(_)
AlertsInOrder(events) ==
    IF events = <<>> THEN <<>>
    ELSE LET alerts == process(engine, Head(events))
         IN  [k \in DOMAIN alerts |->
                 <<alerts[k][2], Head(events).chain_name, alerts[k][1]>>]
             \o AlertsInOrder(Tail(events))

\* The history with every record repeated as often as its count says.
RECURSIVE Uncoalesced(_)
Uncoalesced(history) ==
    IF history = <<>> THEN <<>>
    ELSE [k \in 1..Head(history)[5] |-> Triple(Head(history))]
         \o Uncoalesced(Tail(history))

\* C22: the orchestrator receives the events in the order they entered the
\* channel, and receives an event only when every alert of the events before
\* it has been recorded and dispatched and its send_alert call has returned;
\* the send_alert calls and the records of alert_history (repeats counted)
\* follow the order of the events and, within an event, of the rules.
C22_SerialFifoProcessing ==
    /\ [](/\ Len(consumed) <= Len(emitted)
          /\ consumed = SubSeq(emitted, 1, Len(consumed)))
    /\ [][consumed' # consumed =>
              /\ orch_alerts = <<>>
              /\ send_pc = "idle"
              /\ Len(send_log) = Len(AlertsInOrder(consumed))
              /\ consumed' = Append(consumed, emitted[Len(consumed) + 1])]_vars
    /\ [](LET expected == AlertsInOrder(consumed)
              done == Len(expected) - Len(orch_alerts)
          IN  /\ Len(send_log) = done
              /\ \A k \in 1..done :
                    /\ send_log[k][1] = expected[k][1]
                    /\ send_log[k][2] = expected[k][3]
              /\ Uncoalesced(alert_history) = SubSeq(expected, 1, done))

\* C22 witness: two different events were consumed one after the other;
\* each gave an alert, and the two records and the two dispatches are in the
\* order of the events.
C22_Witness ==
    /\ Len(consumed) = 2
    /\ consumed[1] # consumed[2]
    /\ orch_alerts = <<>>
    /\ send_pc = "idle"
    /\ Len(alert_history) = 2
    /\ Triple(alert_history[1]) = AlertsInOrder(<<consumed[1]>>)[1]
    /\ Triple(alert_history[2]) = AlertsInOrder(<<consumed[2]>>)[1]
    /\ Len(send_log) = 2
    /\ send_log[1][4] = "dispatched" /\ send_log[2][4] = "dispatched"
    /\ send_log[1][2] # send_log[2][2]

\* C23: every event a log task emits has severity Low and carries the chain
\* name and the configured chain id of the chain of its subscription.
C23_EventCarriesChainIdentity ==
    \A i \in DOMAIN emitted :
        emitted[i].chain_name # "Simulation" =>
            /\ emitted[i].severity = "Low"
            /\ emitted[i].chain_name = LogChain
            /\ emitted[i].chain_id = ConfiguredChainId[LogChain]

\* C24: once the orchestrator has handled the alerts of the events it
\* consumed, rule_hits counts one hit per rule that fired: its total is the
\* number of results, so it is non-empty as soon as one rule fired.
C24_RuleHitsRecorded ==
    orch_alerts = <<>> =>
        /\ MapSum(rule_hits) = Len(AllResults(consumed))
        /\ AllResults(consumed) # <<>> => DOMAIN rule_hits # {}

\* The alerts recorded so far, one entry per add_alert call.
Recorded == Uncoalesced(alert_history)

\* C28: every alert recorded in AppState went through send_alert in the same
\* order; its call is suppressed exactly when a call with the same severity
\* and message was dispatched less than 60 s before, whatever the chains are;
\* a dispatched call that has returned made one POST to each enabled provider
\* and a suppressed call none; so the same alert arising on two chains within
\* 60 s leaves two records and one dispatch.
C28_RecordedAlertsDispatched ==
    /\ Len(send_log) = Len(Recorded)
    /\ \A j \in DOMAIN send_log :
          /\ send_log[j][1] = Recorded[j][1]
          /\ send_log[j][2] = Recorded[j][3]
          /\ send_log[j][4] = "suppressed" <=>
                \E i \in DispatchedBefore(j) : send_log[j][3] - send_log[i][3] < 60
          /\ \A p \in {"discord", "telegram"} :
                (j \in ReturnedCalls \/ send_log[j][4] = "suppressed") =>
                    Cardinality(PostsOf(p, {j})) =
                        IF /\ send_log[j][4] = "dispatched"
                           /\ p \in EnabledProviders(alerts_config)
                        THEN 1 ELSE 0
    /\ \A j \in DOMAIN send_log : \A i \in DispatchedBefore(j) :
          (Recorded[i][2] # Recorded[j][2] /\ send_log[j][3] - send_log[i][3] < 60)
          => /\ send_log[j][4] = "suppressed"
             /\ \E a, b \in DOMAIN alert_history :
                   /\ a < b
                   /\ Triple(alert_history[a]) = Recorded[i]
                   /\ Triple(alert_history[b]) = Recorded[j]

\* C28 witness: the ownership alert arose on ethereum and, 59 s later, on the
\* simulated chain: two records, the first dispatched to both providers and
\* the second suppressed.
C28_Witness ==
    /\ Len(alert_history) = 2
    /\ alert_history[1][2] = "ethereum"
    /\ alert_history[2][2] = "Simulation"
    /\ alert_history[1][1] = alert_history[2][1]
    /\ alert_history[1][3] = alert_history[2][3]
    /\ EnabledProviders(alerts_config) = {"discord", "telegram"}
    /\ Len(send_log) = 2
    /\ send_log[1][4] = "dispatched"
    /\ send_log[2][4] = "suppressed"
    /\ send_log[2][3] - send_log[1][3] = 59
    /\ Len(posts) = 2
    /\ send_pc = "idle"

(***************************************************************************)
(* Claims about the startup of main                                        *)
(***************************************************************************)
\* The tasks spawned for a chain.
TasksOf(chain_name) ==
    {t \in tasks : t[1] \in {"watch_blocks", "watch_logs"} /\ t[2] = chain_name}

\* C17: a chain whose connect failed has no block task and no log task; a
\* chain whose connect succeeded has its block task and exactly one log task
\* per contract configured on it; main never stops before the dashboard, and
\* by then the orchestrator is spawned and run_tui is called, whatever the
\* chain list is and whatever failed.
C17_FailedChainSkipped ==
    /\ \A c \in DOMAIN providers :
          /\ providers[c] = "err" => TasksOf(c) = {}
          /\ providers[c] = "ok" =>
                /\ <<"watch_blocks", c>> \in tasks
                /\ TasksOf(c) \ {<<"watch_blocks", c>>} =
                       {<<"watch_logs", c, contract.name>> :
                            contract \in {k \in app_config.contracts : k.chain = c}}
    /\ \A c \in app_config.chains \ DOMAIN providers : TasksOf(c) = {}
    /\ main_pc # "in tui" =>
          ENABLED (ConnectChain \/ SpawnSimulator \/ SpawnOrchestrator \/ MainRunTui)
    /\ main_pc = "in tui" =>
          /\ <<"orchestrator">> \in tasks
          /\ tui_pc # "not called"
          /\ DOMAIN providers = app_config.chains

\* C17 witness: connecting to ethereum failed and to polygon succeeded: the
\* tasks are the block task and the log task of polygon and the orchestrator,
\* and the dashboard is running.
C17_Witness ==
    /\ app_config.chains = {"ethereum", "polygon"}
    /\ app_config.contracts = ContractPool
    /\ providers = [c \in {"ethereum", "polygon"} |->
                        IF c = "ethereum" THEN "err" ELSE "ok"]
    /\ main_pc = "in tui"
    /\ tasks = {<<"watch_blocks", "polygon">>, <<"watch_logs", "polygon", "USDC">>,
                <<"orchestrator">>}

(***************************************************************************)
(* Claims about the dashboard                                              *)
(***************************************************************************)
\* C13: whenever run_tui has returned, the terminal is restored: raw mode
\* disabled, alternate screen left, cursor shown.
C13_TerminalRestored ==
    run_tui_result # None =>
        /\ ~terminal.raw_mode
        /\ ~terminal.alternate_screen
        /\ ~terminal.cursor_hidden

\* The chains that have a record in the history.
HistoryChains == {alert_history[i][2] : i \in DOMAIN alert_history}

\* The entry after a filter in the cyclic filter list.
NextFilter(list, selected_filter) ==
    LET k == CHOOSE i \in DOMAIN list : list[i] = selected_filter
    IN  list[(k % Len(list)) + 1]

\* A draw that follows a Tab press: the index is one past the one the last
\* frame left behind.
DrawAfterTab ==
    /\ tui_pc = "draw" /\ tui_pc' = "poll"
    /\ terminal.frame # None
    /\ \E k \in DOMAIN terminal.frame[1].active_chains :
         /\ terminal.frame[1].active_chains[k] = terminal.frame[1].selected_filter
         /\ current_filter_index = k

\* C18: a Tab press advances the filter to the next entry of the list, with
\* wrap-around; and with alerts of ethereum and polygon in the history, a Tab
\* press takes the filter from ALL to ethereum and the next one from ethereum
\* to polygon.
C18_TabCyclesFilter ==
    [][DrawAfterTab =>
          /\ terminal'.frame[1].active_chains = terminal.frame[1].active_chains =>
                terminal'.frame[1].selected_filter =
                    NextFilter(terminal.frame[1].active_chains,
                               terminal.frame[1].selected_filter)
          /\ HistoryChains = {"ethereum", "polygon"} =>
                /\ terminal.frame[1].selected_filter = "ALL" =>
                       terminal'.frame[1].selected_filter = "ethereum"
                /\ terminal.frame[1].selected_filter = "ethereum" =>
                       terminal'.frame[1].selected_filter = "polygon"]_vars

\* A render that follows a render with no Tab press in between: the index is
\* still the position of the filter the previous frame showed.
DrawWithoutTab ==
    /\ tui_pc = "draw" /\ tui_pc' = "poll"
    /\ terminal.frame # None
    /\ \E k \in DOMAIN terminal.frame[1].active_chains :
         /\ terminal.frame[1].active_chains[k] = terminal.frame[1].selected_filter
         /\ current_filter_index = k - 1

\* C29: a render with no Tab press since the previous render shows the same
\* selected filter as the previous one, also when update_block recorded the
\* first height of a new chain in between.
C29_FilterChangesOnlyOnTab ==
    [][DrawWithoutTab =>
          terminal'.frame[1].selected_filter = terminal.frame[1].selected_filter]_vars

\* C19: every render shows at most 15 rows; each row is the row of a history
\* record that is not Low and, unless the filter is ALL, is of the selected
\* chain; the rows are most-recent-first; and a record that passes both
\* filters is left out only when 15 more recent ones are shown.
C19_TableRows ==
    [][(tui_pc = "draw" /\ tui_pc' = "poll") =>
          LET f == terminal'.frame[1]
              shown == {f.sources[k] : k \in DOMAIN f.sources}
          IN  /\ Len(f.rows) <= 15
              /\ Len(f.rows) = Len(f.sources)
              /\ \A k \in DOMAIN f.rows :
                    /\ f.sources[k] \in DOMAIN alert_history
                    /\ f.rows[k] = Row(alert_history[f.sources[k]], now)
                    /\ f.rows[k][1] = alert_history[f.sources[k]][2]
                    /\ f.rows[k][2] = alert_history[f.sources[k]][1]
                    /\ f.rows[k][2] # "Low"
                    /\ f.selected_filter # "ALL" => f.rows[k][1] = f.selected_filter
              /\ \A k, l \in DOMAIN f.sources : k < l => f.sources[k] > f.sources[l]
              /\ \A i \in DOMAIN alert_history \ shown :
                    (/\ alert_history[i][1] # "Low"
                     /\ f.selected_filter \in {"ALL", alert_history[i][2]})
                    => /\ Len(f.sources) = 15
                       /\ i < f.sources[15]]_vars

\* C19 witness: the history holds records of both chains, more than 15 of
\* ethereum, and the frame shows 15 rows under the filter ethereum.
C19_Witness ==
    /\ tui_pc = "poll"
    /\ terminal.frame # None
    /\ terminal.frame[1].selected_filter = "ethereum"
    /\ Len(terminal.frame[1].rows) = 15
    /\ \A k \in 1..15 : terminal.frame[1].rows[k][1] = "ethereum"
    /\ Cardinality({i \in DOMAIN alert_history : alert_history[i][2] = "ethereum"}) > 15
    /\ "polygon" \in HistoryChains

\* The sum of the repeat counts of the records of a history.
RECURSIVE RepeatSum(_)
RepeatSum(history) ==
    IF history = <<>> THEN 0 ELSE Head(history)[5] + RepeatSum(Tail(history))

\* C27: the repeats the history holds never exceed the counted severities,
\* also between the two blocks of add_alert; what a draw observes (the counts
\* it read and holds, and the history as it reads it) obeys the same; and the
\* two sums are equal whenever no add_alert is between its blocks and no
\* record has been evicted.
C27_HistoryWithinCounts ==
    /\ [](RepeatSum(alert_history) <= MapSum(severity_counts))
    /\ []((add_alert_pc = None /\ Len(all_records) = Len(alert_history))
             => RepeatSum(alert_history) = MapSum(severity_counts))
    /\ [][(tui_pc = "draw: alert_history" /\ tui_pc' = "poll") =>
              RepeatSum(alert_history) <= MapSum(draw_locals[1].counts[1])]_vars

\* C27 witness: the draw closure has read the counts, which include the alert
\* that add_alert has counted and not yet put into the history, and is about
\* to read the history.
C27_Witness ==
    /\ tui_pc = "draw: alert_history"
    /\ add_alert_pc # None
    /\ alert_history # <<>>
    /\ MapSum(draw_locals[1].counts[1]) = RepeatSum(alert_history) + 1
====
